---- MODULE Spec2Model ----
(***************************************************************************)
(* A model of the TASD codec of tasd-rs: the primitive codec, the PLen      *)
(* length prefix, the derived packet codecs, the Packet dispatcher, the     *)
(* Unsupported fallback and the TasdFile container.                         *)
(*                                                                          *)
(* Bytes are the integers 0..255.  A reader is a pair (data, pos) as in     *)
(* std::io::Cursor<&[u8]>.  A usize is kept as its UsizeBytes base-256      *)
(* digits, most significant first, so that shifts and wrap-around are those *)
(* of the machine word.  u32, u64 and i64 values are kept as 16-bit limbs,  *)
(* most significant first.                                                  *)
(***************************************************************************)
EXTENDS Integers, Sequences, FiniteSets, TLC

VARIABLES
    data,             \* the bytes under the reader / produced by the writer
    pos,              \* the reader's stream position
    start,            \* the reader's position when the operation was called
    overflow_checks,  \* the build: TRUE = overflow checks on (debug profile)
    pc,               \* where the caller is
    op,               \* the operation that was applied last
    res,              \* the result of the operation applied last
    pkt,              \* the packet value handed to encode
    file,             \* the TasdFile value handed to encode / returned by parse
    packets,          \* parse_slice: the packets decoded so far
    locals,           \* parse_slice: magic, version and keylen as read
    length,           \* the PLen value handed to PLen::encode
    out,              \* the bytes produced by the last encode
    stack,            \* the Packet::decode calls that wait for a nested packet
    clock,            \* SystemTime::now() as seconds since UNIX_EPOCH (16-bit limbs)
    legacy            \* the R08 value handed to TasdFile::from

vars == <<data, pos, start, overflow_checks, pc, op, res, pkt, file, packets, locals, length, out,
          stack, clock, legacy>>

(***************************************************************************)
(* Sequences helpers                                                        *)
(***************************************************************************)
RECURSIVE Flatten(_)
Flatten(ss) == IF ss = <<>> THEN <<>> ELSE Head(ss) \o Flatten(Tail(ss))

Front(s) == SubSeq(s, 1, Len(s) - 1)

SetMin(S) == CHOOSE x \in S : \A y \in S : x <= y
SetMax(S) == CHOOSE x \in S : \A y \in S : y <= x

RECURSIVE SeqsUpTo(_, _)
\* all sequences over S of length 0..n
SeqsUpTo(S, n) ==
    IF n = 0 THEN {<<>>}
    ELSE LET shorter == SeqsUpTo(S, n - 1)
         IN  shorter \cup {Append(s, x) : s \in {t \in shorter : Len(t) = n - 1}, x \in S}

(***************************************************************************)
(* usize: the platform index width                                          *)
(***************************************************************************)
UsizeBytes == 8

UsizeZero == [i \in 1..UsizeBytes |-> 0]

RECURSIVE NatDigits(_, _)
\* the w base-256 digits of n (n mod 256^w)
NatDigits(n, w) == IF w = 0 THEN <<>> ELSE Append(NatDigits(n \div 256, w - 1), n % 256)

UsizeOfNat(n) == NatDigits(n, UsizeBytes)

\* the value is below 2^24: it can index the inputs of the model
UsizeSmall(len) == \A i \in 1..(UsizeBytes - 3) : len[i] = 0

UsizeNat(len) ==
    len[UsizeBytes - 2] * 65536 + len[UsizeBytes - 1] * 256 + len[UsizeBytes]

UsizeIsZero(len) == \A i \in 1..UsizeBytes : len[i] = 0

\* len < k, for a small k
UsizeLess(len, k) == UsizeSmall(len) /\ UsizeNat(len) < k

RECURSIVE SubDigits(_, _)
\* digits - k with the borrow out of the top digit dropped (wrapping)
SubDigits(d, k) ==
    IF d = <<>> THEN <<>>
    ELSE LET t == d[Len(d)] - (k % 256)
             borrow == IF t < 0 THEN 1 ELSE 0
         IN  Append(SubDigits(Front(d), (k \div 256) + borrow), t % 256)

UsizeWrappingSub(len, k) == SubDigits(len, k)

\* len > isize::MAX
UsizeAboveIsizeMax(len) == len[1] >= 128

\* a shift that leaves the word as it is
ShlByZero(len) == [some |-> TRUE, val |-> len]

\* usize::checked_shl(8): None only when the shift amount is not below the bit
\* width; bits shifted out of the word are lost.
CheckedShl8(len) ==
    IF 8 >= 8 * UsizeBytes THEN [some |-> FALSE, val |-> len]
    ELSE [some |-> TRUE, val |-> Append(Tail(len), 0)]

(***************************************************************************)
(* Reader primitives (Cursor over a slice)                                  *)
(***************************************************************************)
\* Read::read_exact: n bytes or UnexpectedEof; a failed read leaves the cursor
\* at the end of the data.
ReadExact(d, p, n) ==
    IF p + n <= Len(d)
    THEN [ok |-> TRUE, bytes |-> SubSeq(d, p + 1, p + n), pos |-> p + n]
    ELSE [ok |-> FALSE, bytes |-> <<>>, pos |-> IF p > Len(d) THEN p ELSE Len(d)]

\* vec![0u8; len] followed by read_exact: a capacity above isize::MAX panics
\* ("capacity overflow"); memory exhaustion below that is not modelled.
ReadVec(d, p, len) ==
    IF UsizeAboveIsizeMax(len)
    THEN [res |-> "panic", err |-> "capacity overflow", bytes |-> <<>>, pos |-> p]
    ELSE IF ~UsizeSmall(len)
    THEN [res |-> "err", err |-> "EndOfStream", bytes |-> <<>>, pos |-> Len(d)]
    ELSE LET r == ReadExact(d, p, UsizeNat(len))
         IN  IF r.ok
             THEN [res |-> "ok", err |-> "", bytes |-> r.bytes, pos |-> r.pos]
             ELSE [res |-> "err", err |-> "EndOfStream", bytes |-> <<>>, pos |-> r.pos]

\* String::from_utf8: well-formed UTF-8 (no overlong forms, no surrogates,
\* nothing above U+10FFFF)
Utf8Width(lead) ==
    IF lead <= 127 THEN 1
    ELSE IF lead \in 194..223 THEN 2
    ELSE IF lead \in 224..239 THEN 3
    ELSE IF lead \in 240..244 THEN 4
    ELSE 0

Utf8Second(lead) ==
    IF lead = 224 THEN 160..191
    ELSE IF lead = 237 THEN 128..159
    ELSE IF lead = 240 THEN 144..191
    ELSE IF lead = 244 THEN 128..143
    ELSE 128..191

\* every byte that is not a continuation byte opens a sequence of the width
\* its value announces, followed by exactly that many continuation bytes
IsUtf8(b) ==
    /\ Len(b) > 0 => b[1] \notin 128..191
    /\ \A i \in 1..Len(b) :
          b[i] \notin 128..191 =>
              /\ Utf8Width(b[i]) > 0
              /\ i + Utf8Width(b[i]) - 1 <= Len(b)
              /\ \A j \in (i + 1)..(i + Utf8Width(b[i]) - 1) : b[j] \in 128..191
              /\ Utf8Width(b[i]) > 1 => b[i + 1] \in Utf8Second(b[i])
              /\ i + Utf8Width(b[i]) <= Len(b) => b[i + Utf8Width(b[i])] \notin 128..191

(***************************************************************************)
(* PLen codec                                                               *)
(***************************************************************************)
PLenResult(r, e, len, p) == [res |-> r, err |-> e, len |-> len, pos |-> p]

RECURSIVE PLenLoop(_, _, _, _)
\* for _ in 0..exp { len = len.checked_shl(8)? | u8::decode(reader)? }
PLenLoop(d, p, n, len) ==
    IF n = 0 THEN PLenResult("ok", "", len, p)
    ELSE LET sh == CheckedShl8(len)
         IN  IF ~sh.some THEN PLenResult("err", "OversizedLength", UsizeZero, p)
             ELSE LET b == ReadExact(d, p, 1)
                  IN  IF ~b.ok THEN PLenResult("err", "EndOfStream", UsizeZero, b.pos)
                      ELSE PLenLoop(d, b.pos, n - 1,
                                    [sh.val EXCEPT ![UsizeBytes] = b.bytes[1]])

PLenDecode(d, p) ==
    LET e == ReadExact(d, p, 1)
    IN  IF ~e.ok THEN PLenResult("err", "EndOfStream", UsizeZero, e.pos)
        ELSE IF e.bytes[1] = 0 THEN PLenResult("err", "ExponentIsZero", UsizeZero, e.pos)
        ELSE PLenLoop(d, e.pos, e.bytes[1], UsizeZero)

\* an encoder that always writes the whole machine word
PLenBytesWhole(tmp) == tmp

RECURSIVE PLenBytes(_)
\* while tmp > 0 { plen.insert(0, tmp as u8); tmp >>= 8; exp += 1 }
PLenBytes(tmp) ==
    IF UsizeIsZero(tmp) THEN <<>>
    ELSE Append(PLenBytes(<<0>> \o Front(tmp)), tmp[UsizeBytes])

\* write_all(&[exp]); write_all(&plen); Ok(1 + exp as usize), exp being a u8
PLenWrite(plen_bytes) ==
    [bytes |-> <<Len(plen_bytes) % 256>> \o plen_bytes, written |-> 1 + (Len(plen_bytes) % 256)]

\* PLen(len).encode: the bytes written and the count returned
PLenEncodeUsize(len) ==
    IF UsizeIsZero(len) THEN [bytes |-> <<0>>, written |-> 1] ELSE PLenWrite(PLenBytes(len))

\* the bytes PLen(n).encode writes
PLenEncode(n) == PLenEncodeUsize(UsizeOfNat(n)).bytes

(***************************************************************************)
(* The packet catalog: key and ordered fields of every typed variant, in    *)
(* the declaration order of enum Packet.                                    *)
(***************************************************************************)
F(kind) == [kind |-> kind, valid |-> {}]
E8(valid) == [kind |-> "u8_enum", valid |-> valid]
E16(valid) == [kind |-> "u16_enum", valid |-> valid]
V(name, key, fields) == [name |-> name, key |-> key, fields |-> fields]

Console == (1..9) \cup {255}
ConsoleRegionValues == {1, 2, 255}
AttributionKind == (1..4) \cup {255}
InitKind == (1..5) \cup {255}
InitDevice == {257, 258, 513, 514, 1281, 1282, 1537, 1538, 1793, 1794,
               2049, 2050, 2305, 2306, 65535}
IdKind == (1..14) \cup {255}
IdEncoding == 1..4
PortKind == (257..261) \cup (513..516) \cup (769..776) \cup {1025, 1026}
            \cup {1281, 1537, 1793, 2049, 2050} \cup (2305..2307) \cup {65535}
MomentIndexKind == 1..5
TransitionIndexKind == 1..6
TransitionKind == {1, 2, 3, 255}

Catalog == <<
    V("ConsoleType",          <<0, 1>>,     <<E8(Console), F("tail_string")>>),
    V("ConsoleRegion",        <<0, 2>>,     <<E8(ConsoleRegionValues)>>),
    V("GameTitle",            <<0, 3>>,     <<F("tail_string")>>),
    V("RomName",              <<0, 4>>,     <<F("tail_string")>>),
    V("Attribution",          <<0, 5>>,     <<E8(AttributionKind), F("tail_string")>>),
    V("Category",             <<0, 6>>,     <<F("tail_string")>>),
    V("EmulatorName",         <<0, 7>>,     <<F("tail_string")>>),
    V("EmulatorVersion",      <<0, 8>>,     <<F("tail_string")>>),
    V("EmulatorCore",         <<0, 9>>,     <<F("tail_string")>>),
    V("TasLastModified",      <<0, 10>>,    <<F("i64")>>),
    V("DumpCreated",          <<0, 11>>,    <<F("i64")>>),
    V("DumpLastModified",     <<0, 12>>,    <<F("i64")>>),
    V("TotalFrames",          <<0, 13>>,    <<F("u32")>>),
    V("Rerecords",            <<0, 14>>,    <<F("u32")>>),
    V("SourceLink",           <<0, 15>>,    <<F("tail_string")>>),
    V("BlankFrames",          <<0, 16>>,    <<F("i16")>>),
    V("Verified",             <<0, 17>>,    <<F("bool")>>),
    V("MemoryInit",           <<0, 18>>,    <<E8(InitKind), E16(InitDevice), F("bool"),
                                              F("u8_string"), F("tail_bytes")>>),
    V("GameIdentifier",       <<0, 19>>,    <<E8(IdKind), E8(IdEncoding), F("u8_string"),
                                              F("tail_bytes")>>),
    V("MovieLicense",         <<0, 20>>,    <<F("tail_string")>>),
    V("MovieFile",            <<0, 21>>,    <<F("u8_string"), F("tail_bytes")>>),
    V("PortController",       <<0, 240>>,   <<F("u8"), E16(PortKind)>>),
    V("PortOverread",         <<0, 241>>,   <<F("u8"), F("bool")>>),
    V("NesLatchFilter",       <<1, 1>>,     <<F("u16")>>),
    V("NesClockFilter",       <<1, 2>>,     <<F("u8")>>),
    V("NesGameGenieCode",     <<1, 4>>,     <<F("tail_string")>>),
    V("SnesLatchFilter",      <<2, 1>>,     <<F("u16")>>),
    V("SnesClockFilter",      <<2, 2>>,     <<F("u8")>>),
    V("SnesGameGenieCode",    <<2, 4>>,     <<F("tail_string")>>),
    V("SnesLatchTrain",       <<2, 5>>,     <<F("tail_u64s")>>),
    V("GenesisGameGenieCode", <<8, 4>>,     <<F("tail_string")>>),
    V("InputChunk",           <<254, 1>>,   <<F("u8"), F("tail_bytes")>>),
    V("InputMoment",          <<254, 2>>,   <<F("u8"), F("bool"), E8(MomentIndexKind),
                                              F("u64"), F("tail_bytes")>>),
    V("Transition",           <<254, 3>>,   <<F("u8"), E8(TransitionIndexKind), F("u64"),
                                              E8(TransitionKind), F("tail_packet")>>),
    V("LagFrameChunk",        <<254, 4>>,   <<F("u32"), F("u32")>>),
    V("MovieTransition",      <<254, 5>>,   <<F("u32"), E8(TransitionKind),
                                              F("tail_packet")>>),
    V("Comment",              <<255, 1>>,   <<F("tail_string")>>),
    V("Experimental",         <<255, 254>>, <<F("bool")>>),
    V("Unspecified",          <<255, 255>>, <<F("tail_bytes")>>)
>>

Variants == 1..Len(Catalog)
CatalogKeys == {Catalog[v].key : v \in Variants}
VariantOf(name) == CHOOSE v \in Variants : Catalog[v].name = name
KeyVariant(key) == CHOOSE v \in Variants : Catalog[v].key = key

\* a packet value: the variant's name and its field values in declaration
\* order.  An Unsupported packet has the values <<key, data>>; an inner_packet
\* is <<>> (None) or <<p>> (Some(p)).
Pkt(tag, vals) == [tag |-> tag, vals |-> vals]
NoPacket == Pkt("None", <<>>)

(***************************************************************************)
(* Derived packet decoders (derive(Packet)), Unsupported, and the           *)
(* dispatcher (derive(Wrapper))                                             *)
(***************************************************************************)
FR(r, e, val, p) == [res |-> r, err |-> e, val |-> val, pos |-> p]

DR(r, e, q, p, plen, ps) ==
    [res |-> r, err |-> e, pkt |-> q, pos |-> p, plen |-> plen, payload_start |-> ps]

\* big-endian bytes <-> 16-bit limbs
Limbs(b) == [i \in 1..(Len(b) \div 2) |-> b[2 * i - 1] * 256 + b[2 * i]]
LimbBytes(l) == Flatten([i \in 1..Len(l) |-> <<l[i] \div 256, l[i] % 256>>])

\* plen - (offset as usize): overflow panics when overflow checks are on and
\* wraps when they are off
TailLen(plen, offset) ==
    IF UsizeLess(plen, offset) /\ overflow_checks
    THEN [panic |-> TRUE, len |-> UsizeZero]
    ELSE [panic |-> FALSE, len |-> UsizeWrappingSub(plen, offset)]

SubtractOverflow(p) == FR("panic", "attempt to subtract with overflow", <<>>, p)

\* a fixed-width field: read n bytes, then convert
ReadFixed(d, p, n) ==
    LET r == ReadExact(d, p, n)
    IN  IF r.ok THEN FR("ok", "", r.bytes, r.pos) ELSE FR("err", "EndOfStream", <<>>, r.pos)

\* a tail field: the remaining plen - offset bytes of the payload
VecField(r) == FR(r.res, r.err, r.bytes, r.pos)
TailBody(d, p, t) == IF t.panic THEN SubtractOverflow(p) ELSE VecField(ReadVec(d, p, t.len))
ReadTail(d, p, plen, ps) == TailBody(d, p, TailLen(plen, p - ps))

RECURSIVE PacketDecode(_, _)
RECURSIVE DecodeField(_, _, _, _, _)
RECURSIVE DecodeFields(_, _, _, _, _, _, _)

\* the bytes read by the primitive decoder of a fixed-width field
FixedWidth(f) ==
    CASE f.kind \in {"u8", "bool", "u8_enum"} -> 1
      [] f.kind \in {"u16", "i16", "u16_enum"} -> 2
      [] f.kind = "u32" -> 4
      [] f.kind \in {"u64", "i64"} -> 8

\* U8Vec::decode: a length byte, then that many bytes
U8VecBody(d, n) == IF n.res # "ok" THEN n ELSE ReadFixed(d, n.pos, n.val[1])
U8VecDecode(d, p) == U8VecBody(d, ReadFixed(d, p, 1))

\* Vec<u64> tail: (plen - offset) % 8 is checked before the bytes are read
TailU64sBody(d, p, t) ==
    IF t.panic THEN SubtractOverflow(p)
    ELSE IF t.len[UsizeBytes] % 8 # 0 THEN FR("err", "WrongLength", <<>>, p)
    ELSE VecField(ReadVec(d, p, t.len))
ReadTailU64s(d, p, plen, ps) == TailU64sBody(d, p, TailLen(plen, p - ps))

\* Option<Box<Packet>> tail: None when no payload byte remains, otherwise
\* Packet::decode
NestedResult(r) ==
    IF r.res = "ok" THEN FR("ok", "", <<r.pkt>>, r.pos) ELSE FR(r.res, r.err, <<>>, r.pos)
TailPacketBody(d, p, t) ==
    IF t.panic THEN SubtractOverflow(p)
    ELSE IF UsizeIsZero(t.len) THEN FR("ok", "", <<>>, p)
    ELSE NestedResult(PacketDecode(d, p))
ReadTailPacket(d, p, plen, ps) == TailPacketBody(d, p, TailLen(plen, p - ps))

\* the bytes of one field, as its decoder reads them
ReadField(f, d, p, plen, ps) ==
    CASE f.kind = "u8_string" -> U8VecDecode(d, p)
      [] f.kind \in {"tail_bytes", "tail_string"} -> ReadTail(d, p, plen, ps)
      [] f.kind = "tail_u64s" -> ReadTailU64s(d, p, plen, ps)
      [] f.kind = "tail_packet" -> ReadTailPacket(d, p, plen, ps)
      [] OTHER -> ReadFixed(d, p, FixedWidth(f))

U16OfBytes(b) == b[1] * 256 + b[2]

\* the value the decoder makes of the bytes r.val, or its error
ConvertField(f, r) ==
    IF r.res # "ok" THEN FR(r.res, r.err, <<>>, r.pos)
    ELSE CASE f.kind = "u8" -> [r EXCEPT !.val = r.val[1]]
           [] f.kind = "u16" -> [r EXCEPT !.val = U16OfBytes(r.val)]
           [] f.kind = "i16" ->
                [r EXCEPT !.val = IF U16OfBytes(r.val) >= 32768 THEN U16OfBytes(r.val) - 65536
                                  ELSE U16OfBytes(r.val)]
           [] f.kind \in {"u32", "u64", "i64"} -> [r EXCEPT !.val = Limbs(r.val)]
           [] f.kind = "bool" ->
                IF r.val[1] = 0 THEN [r EXCEPT !.val = FALSE]
                ELSE IF r.val[1] = 1 THEN [r EXCEPT !.val = TRUE]
                ELSE FR("err", "InvalidBool", <<>>, r.pos)
           [] f.kind = "u8_enum" ->
                IF r.val[1] \in f.valid THEN [r EXCEPT !.val = r.val[1]]
                ELSE FR("err", "InvalidEnum", <<>>, r.pos)
           [] f.kind = "u16_enum" ->
                IF U16OfBytes(r.val) \in f.valid THEN [r EXCEPT !.val = U16OfBytes(r.val)]
                ELSE FR("err", "InvalidEnum", <<>>, r.pos)
           [] f.kind \in {"u8_string", "tail_string"} ->
                IF IsUtf8(r.val) THEN r ELSE FR("err", "InvalidUtf8", <<>>, r.pos)
           [] f.kind = "tail_u64s" ->
                [r EXCEPT !.val = [i \in 1..(Len(r.val) \div 8) |->
                                      Limbs(SubSeq(r.val, 8 * i - 7, 8 * i))]]
           [] f.kind \in {"tail_bytes", "tail_packet"} -> r

\* one field of a derived decoder; plen and ps are try_decode's plen and
\* payload_start
DecodeField(f, d, p, plen, ps) == ConvertField(f, ReadField(f, d, p, plen, ps))

\* the fields of the struct literal, in declaration order, stopping at the
\* first failure: r is the result of field i
FieldDecoded(fields, i, d, plen, ps, vals, r) ==
    IF r.res # "ok" THEN FR(r.res, r.err, <<>>, r.pos)
    ELSE DecodeFields(fields, i + 1, d, r.pos, plen, ps, Append(vals, r.val))

DecodeFields(fields, i, d, p, plen, ps, vals) ==
    IF i > Len(fields) THEN FR("ok", "", vals, p)
    ELSE FieldDecoded(fields, i, d, plen, ps, vals, DecodeField(fields[i], d, p, plen, ps))

\* fn try_decode of variant c: the struct literal from the fields fs
TryDecodeStruct(c, l, fs) ==
    IF fs.res = "ok"
    THEN DR("ok", "", Pkt(c.name, fs.val), fs.pos, l.len, l.pos)
    ELSE DR(fs.res, fs.err, NoPacket, fs.pos, l.len, l.pos)

\* ... the payload after the length l; payload_start = l.pos
TryDecodePayload(c, d, l) ==
    IF l.res # "ok" THEN DR("err", l.err, NoPacket, l.pos, UsizeZero, 0)
    ELSE TryDecodeStruct(c, l, DecodeFields(c.fields, 1, d, l.pos, l.len, l.pos, <<>>))

\* a try_decode that does not compare the key
TryDecodeAnyKey(c, d, k) ==
    IF ~k.ok THEN DR("err", "EndOfStream", NoPacket, k.pos, UsizeZero, 0)
    ELSE TryDecodePayload(c, d, PLenDecode(d, k.pos))

\* ... the comparison of the key k and the length
TryDecodeKey(c, d, k) ==
    IF ~k.ok THEN DR("err", "EndOfStream", NoPacket, k.pos, UsizeZero, 0)
    ELSE IF c.key # k.bytes THEN DR("err", "WrongKey", NoPacket, k.pos, UsizeZero, 0)
    ELSE TryDecodePayload(c, d, PLenDecode(d, k.pos))

TryDecode(v, d, p) == TryDecodeKey(Catalog[v], d, ReadExact(d, p, 2))

\* on an error seek back to packet_start
Rewind(r, packet_start) == IF r.res = "err" THEN [r EXCEPT !.pos = packet_start] ELSE r

\* a decoder that forgets the seek back
TypedDecodeNoRewind(v, d, p) == TryDecode(v, d, p)

\* <variant v>::decode: try_decode, and on an error the seek back
TypedDecode(v, d, p) == Rewind(TryDecode(v, d, p), p)

\* Unsupported::decode: key, PLen, plen bytes; no seek on failure
UnsupportedPayload(k, l, b) ==
    IF b.res = "ok"
    THEN DR("ok", "", Pkt("Unsupported", <<k.bytes, b.bytes>>), b.pos, l.len, l.pos)
    ELSE DR(b.res, b.err, NoPacket, b.pos, l.len, l.pos)

UnsupportedLength(d, k, l) ==
    IF l.res # "ok" THEN DR("err", l.err, NoPacket, l.pos, UsizeZero, 0)
    ELSE UnsupportedPayload(k, l, ReadVec(d, l.pos, l.len))

UnsupportedKey(d, k) ==
    IF ~k.ok THEN DR("err", "EndOfStream", NoPacket, k.pos, UsizeZero, 0)
    ELSE UnsupportedLength(d, k, PLenDecode(d, k.pos))

UnsupportedDecode(d, p) == UnsupportedKey(d, ReadExact(d, p, 2))

\* the typed variants that do not fail on the bytes at packet_start
Decoding(d, p) == {v \in Variants : TypedDecode(v, d, p).res \in {"ok", "panic"}}

\* a dispatcher without the Unsupported fallback: the error of the first typed
\* decoder is returned
NoFallback(d, p, decoding) ==
    IF decoding = {} THEN TypedDecode(1, d, p)
    ELSE TypedDecode(SetMin(decoding), d, p)

\* a dispatcher that returns the error of the variant that owns the key
OwnerError(d, p, decoding) ==
    IF decoding # {} THEN TypedDecode(SetMin(decoding), d, p)
    ELSE IF ReadExact(d, p, 2).bytes \in CatalogKeys
         THEN TypedDecode(KeyVariant(ReadExact(d, p, 2).bytes), d, p)
    ELSE Rewind(UnsupportedDecode(d, p), p)

\* the typed variants are tried in declaration order, each from packet_start:
\* the first that does not fail ends the loop; when all fail Unsupported is
\* tried, whose error is returned after the seek back
TryVariants(d, p, decoding) ==
    IF decoding = {} THEN Rewind(UnsupportedDecode(d, p), p)
    ELSE TypedDecode(SetMin(decoding), d, p)

\* Packet::decode
PacketDecode(d, p) == TryVariants(d, p, Decoding(d, p))

(***************************************************************************)
(* Encoders                                                                 *)
(***************************************************************************)
\* an encoder that cuts at 255 bytes wherever that falls
CutAt255(s) == IF 255 >= Len(s) THEN Len(s) ELSE 255

\* str::floor_char_boundary(255) as copied into the u8_string encoder
FloorCharBoundary(s) ==
    IF 255 >= Len(s) THEN Len(s)
    ELSE LET lower_bound == 255 - 3
             boundaries == {i \in lower_bound..255 : s[i + 1] \notin 128..191}
         IN  \* a String is well-formed UTF-8, so boundaries is never empty
             IF boundaries = {} THEN lower_bound
             ELSE CHOOSE i \in boundaries : \A j \in boundaries : j <= i

RECURSIVE PacketEncode(_)

\* the length byte and the bytes of the string up to index
U8StringEncode(val, index) == <<index % 256>> \o SubSeq(val, 1, index)

EncodeField(f, val) ==
    CASE f.kind \in {"u8", "u8_enum"} -> <<val>>
      [] f.kind \in {"u16", "u16_enum"} -> <<val \div 256, val % 256>>
      [] f.kind = "i16" -> <<((val + 65536) % 65536) \div 256, (val + 65536) % 256>>
      [] f.kind \in {"u32", "u64", "i64"} -> LimbBytes(val)
      [] f.kind = "bool" -> <<IF val THEN 1 ELSE 0>>
      [] f.kind = "u8_string" -> U8StringEncode(val, FloorCharBoundary(val))
      [] f.kind \in {"tail_bytes", "tail_string"} -> val
      [] f.kind = "tail_u64s" -> Flatten([i \in 1..Len(val) |-> LimbBytes(val[i])])
      [] f.kind = "tail_packet" -> IF val = <<>> THEN <<>> ELSE PacketEncode(val[1])

EncodeFields(fields, vals) ==
    Flatten([i \in 1..Len(fields) |-> EncodeField(fields[i], vals[i])])

\* the payload buffer of a derived encoder
Payload(q) == EncodeFields(Catalog[VariantOf(q.tag)].fields, q.vals)

\* an encoder that writes no length
WriteNoLength(key, payload) == key \o payload

\* key, PLen(payload.len()), payload
WritePacket(key, payload) == key \o PLenEncode(Len(payload)) \o payload

\* written: what the three encode calls return, added up
Written(key, payload) ==
    Len(key) + PLenEncodeUsize(UsizeOfNat(Len(payload))).written + Len(payload)

\* the derived encoder of variant c
TypedEncode(c, q) == WritePacket(c.key, EncodeFields(c.fields, q.vals))

\* Packet::encode: the bytes written by the active variant's encoder
PacketEncode(q) ==
    IF q.tag = "Unsupported" THEN WritePacket(q.vals[1], q.vals[2])
    ELSE TypedEncode(Catalog[VariantOf(q.tag)], q)

\* the count returned by Packet::encode
PacketWritten(q) ==
    IF q.tag = "Unsupported" THEN Written(q.vals[1], q.vals[2])
    ELSE Written(Catalog[VariantOf(q.tag)].key, Payload(q))

(***************************************************************************)
(* State machines.  Every specification starts from an input drawn from a   *)
(* bounded set and applies the operations of the library to it.             *)
(***************************************************************************)
NoResult == [res |-> "none", err |-> "", pos |-> 0]
NoFile == [version |-> 0, keylen |-> 0, packets |-> <<>>, path |-> <<>>]

\* R08 { inputs }
R08(inputs) == [inputs |-> inputs]
NoLegacy == R08(<<>>)

\* 1970-01-01 00:00:00 UTC
Epoch == <<0, 0, 0, 0>>

\* Ok(written)
EncodeResult(written) == [res |-> "ok", err |-> "", pos |-> 0, written |-> written]

NoLocals == [magic |-> <<>>, version |-> 0, keylen |-> 0]

\* the variables an operation on a reader leaves alone
ReaderFrame == UNCHANGED <<data, start, overflow_checks, pkt, file, packets, locals, length, out, stack, clock, legacy>>

(***************************************************************************)
(* SpecPLen: PLen::decode on a reader holding an exponent byte and up to    *)
(* MaxExp length bytes                                                      *)
(***************************************************************************)
MaxExp == 9
PLenDigits == {0, 255}

PLenInputs ==
    {<<e>> \o s : e \in 0..MaxExp, s \in SeqsUpTo(PLenDigits, MaxExp)}
    \cup {<<>>}

InitPLen ==
    /\ data \in {i \in PLenInputs : i = <<>> \/ Len(i) <= 1 + i[1]}
    /\ pos = 0
    /\ start = 0
    /\ overflow_checks = TRUE
    /\ pc = "ready"
    /\ op = ""
    /\ res = NoResult
    /\ pkt = NoPacket
    /\ file = NoFile
    /\ packets = <<>>
    /\ locals = NoLocals
    /\ length = UsizeZero
    /\ out = <<>>
    /\ stack = <<>>
    /\ clock = Epoch
    /\ legacy = NoLegacy

CallPLenDecode ==
    /\ pc = "ready"
    /\ res' = PLenDecode(data, pos)
    /\ pos' = res'.pos
    /\ op' = "PLen::decode"
    /\ pc' = "called"
    /\ ReaderFrame

NextPLen == CallPLenDecode

SpecPLen == InitPLen /\ [][NextPLen]_vars

RECURSIVE StripZeros(_)
\* a big-endian number without its leading zero digits
StripZeros(b) == IF b # <<>> /\ b[1] = 0 THEN StripZeros(Tail(b)) ELSE b

\* the exponent byte is not zero and all the length bytes it announces are there
PLenWellFramed == data # <<>> /\ data[1] >= 1 /\ Len(data) >= 1 + data[1]
PLenLengthBytes == SubSeq(data, 2, 1 + data[1])
PLenFits == Len(StripZeros(PLenLengthBytes)) <= UsizeBytes

\* C10: PLen::decode of length bytes whose big-endian value does not fit usize
\* returns OversizedLength, and an Ok result carries exactly the value of the
\* length bytes (never a truncated or wrapped one).
C10_OversizedLengthRejected ==
    (pc = "called" /\ op = "PLen::decode" /\ PLenWellFramed) =>
        /\ ~PLenFits => (res.res = "err" /\ res.err = "OversizedLength")
        /\ res.res = "ok" => StripZeros(res.len) = StripZeros(PLenLengthBytes)

(***************************************************************************)
(* SpecCodec: a packet value is built, encoded with Packet::encode, and the *)
(* bytes are decoded with Packet::decode from position 0                    *)
(***************************************************************************)
MaxTail == 2
MaxDepth == 1

SampleBytes == {0, 255}
\* "0" and U+00E9
SampleChars == {<<48>>, <<195, 169>>}
SampleStrings == {Flatten(cs) : cs \in SeqsUpTo(SampleChars, MaxTail)}
SampleKeys == {<<165, 90>>, <<2, 5>>}

\* the values a field takes in the packets that are built
SampleVals(f) ==
    CASE f.kind = "u8" -> {0, 255}
      [] f.kind = "u16" -> {258}
      [] f.kind = "i16" -> {-32768, 1}
      [] f.kind = "u32" -> {<<0, 1>>, <<65535, 65535>>}
      [] f.kind \in {"u64", "i64"} -> {<<0, 0, 0, 1>>, <<4660, 22136, 39612, 57072>>}
      [] f.kind = "bool" -> BOOLEAN
      [] f.kind \in {"u8_enum", "u16_enum"} -> {SetMin(f.valid), SetMax(f.valid)}
      [] f.kind = "u8_string" -> {<<>>, <<48>>, <<195, 169>>}
      [] f.kind = "tail_bytes" -> SeqsUpTo(SampleBytes, MaxTail)
      [] f.kind = "tail_u64s" -> SeqsUpTo({<<0, 0, 0, 1>>}, MaxTail)
      [] f.kind = "tail_string" -> SampleStrings
      [] f.kind = "tail_packet" -> {<<>>}

RECURSIVE ValSeqs(_)
ValSeqs(fields) ==
    IF fields = <<>> THEN {<<>>}
    ELSE {<<x>> \o rest : x \in SampleVals(Head(fields)), rest \in ValSeqs(Tail(fields))}

\* "0123456789"
Digits == [i \in 1..10 |-> 47 + i]

\* the packets of tests::console_type, tests::wrapper and tests::unsupported
TestPackets ==
    {Pkt("ConsoleType", <<255, Digits>>), Pkt("Unsupported", <<<<165, 90>>, Digits>>)}

BasePackets ==
    UNION {{Pkt(Catalog[v].name, vs) : vs \in ValSeqs(Catalog[v].fields)} : v \in Variants}
    \cup {Pkt("Unsupported", <<k, d>>) : k \in SampleKeys, d \in SeqsUpTo(SampleBytes, MaxTail)}
    \cup TestPackets

RECURSIVE Depth(_)
\* how many packets are nested inside q
Depth(q) ==
    IF q.tag \in {"Transition", "MovieTransition"} /\ q.vals[Len(q.vals)] # <<>>
    THEN 1 + Depth(q.vals[Len(q.vals)][1])
    ELSE 0

InitCodec ==
    /\ pkt \in BasePackets
    /\ data = <<>>
    /\ pos = 0
    /\ start = 0
    /\ overflow_checks \in BOOLEAN
    /\ pc = "built"
    /\ op = ""
    /\ res = NoResult
    /\ file = NoFile
    /\ packets = <<>>
    /\ locals = NoLocals
    /\ length = UsizeZero
    /\ out = <<>>
    /\ stack = <<>>
    /\ clock = Epoch
    /\ legacy = NoLegacy

\* the caller wraps the packet into a Transition or a MovieTransition
WrapTransition ==
    /\ pc = "built"
    /\ Depth(pkt) < MaxDepth
    /\ pkt' = Pkt("Transition", <<1, 1, <<4660, 22136, 39612, 57072>>, 255, <<pkt>>>>)
    /\ UNCHANGED <<data, pos, start, overflow_checks, pc, op, res, file, packets, locals, length, out, stack, clock, legacy>>

WrapMovieTransition ==
    /\ pc = "built"
    /\ Depth(pkt) < MaxDepth
    /\ pkt' = Pkt("MovieTransition", <<<<0, 1>>, 1, <<pkt>>>>)
    /\ UNCHANGED <<data, pos, start, overflow_checks, pc, op, res, file, packets, locals, length, out, stack, clock, legacy>>

\* p.encode(&mut buf); the reader is then a Cursor over buf
CallPacketEncode ==
    /\ pc = "built"
    /\ out' = PacketEncode(pkt)
    /\ res' = EncodeResult(PacketWritten(pkt))
    /\ data' = out'
    /\ pos' = 0
    /\ start' = 0
    /\ op' = "Packet::encode"
    /\ pc' = "ready"
    /\ UNCHANGED <<overflow_checks, pkt, file, packets, locals, length, stack, clock, legacy>>

\* Packet::decode(&mut reader)
CallPacketDecode ==
    /\ pc = "ready"
    /\ res' = PacketDecode(data, pos)
    /\ pos' = res'.pos
    /\ op' = "Packet::decode"
    /\ pc' = "called"
    /\ ReaderFrame

NextCodec == WrapTransition \/ WrapMovieTransition \/ CallPacketEncode \/ CallPacketDecode

SpecCodec == InitCodec /\ [][NextCodec]_vars

\* C1: for every packet value p, Packet::decode of the bytes written by
\* Packet::encode(p), read from position 0, returns Ok(p).
C1_PacketRoundTrip ==
    (pc = "called" /\ op = "Packet::decode") => (res.res = "ok" /\ res.pkt = pkt)

\* C5: for every 2-byte key k outside the catalog and every payload d, the
\* encoding of Unsupported{k, d} decodes to Unsupported{k, d}.
C5_UnsupportedPreserved ==
    (/\ pc = "called"
     /\ op = "Packet::decode"
     /\ pkt.tag = "Unsupported"
     /\ pkt.vals[1] \notin CatalogKeys) => (res.res = "ok" /\ res.pkt = pkt)

(***************************************************************************)
(* SpecDecode: the decoders on readers that hold arbitrary bytes: a packet  *)
(* frame whose declared length, payload length and payload bytes vary, at a *)
(* position that need not be 0                                              *)
(***************************************************************************)
MaxPad == 1

CorruptBytes == {0, 2, 128}
PadBytes == [i \in 1..MaxPad |-> 1]
Prefixes == {<<>>, <<255>>}

\* one value per field kind
Rep(f) ==
    CASE f.kind = "u8" -> 1
      [] f.kind = "u16" -> 258
      [] f.kind = "i16" -> -2
      [] f.kind = "u32" -> <<0, 1>>
      [] f.kind \in {"u64", "i64"} -> <<0, 0, 0, 1>>
      [] f.kind = "bool" -> TRUE
      [] f.kind \in {"u8_enum", "u16_enum"} -> SetMin(f.valid)
      [] f.kind = "u8_string" -> <<48>>
      [] f.kind = "tail_bytes" -> <<7, 9>>
      [] f.kind = "tail_u64s" -> <<<<0, 0, 0, 1>>>>
      [] f.kind = "tail_string" -> <<48, 195, 169>>
      [] f.kind = "tail_packet" -> <<>>

RepPacket(v) == Pkt(Catalog[v].name, [i \in 1..Len(Catalog[v].fields) |-> Rep(Catalog[v].fields[i])])

RepPackets ==
    {RepPacket(v) : v \in Variants}
    \cup {Pkt("Unsupported", <<<<165, 90>>, <<7, 9>>>>),
          Pkt("Transition", <<1, 1, <<0, 0, 0, 1>>, 255, <<RepPacket(VariantOf("GameTitle"))>>>>),
          Pkt("MovieTransition", <<<<0, 1>>, 1, <<RepPacket(VariantOf("Verified"))>>>>)}

KeyOf(q) == IF q.tag = "Unsupported" THEN q.vals[1] ELSE Catalog[VariantOf(q.tag)].key
BodyOf(q) == IF q.tag = "Unsupported" THEN q.vals[2] ELSE Payload(q)

\* key, pexp = 1, declared length k, body
Frame(key, k, body) == key \o <<1, k>> \o body

\* the frames derived from a packet with this key and this payload
FramesFor(key, body) ==
    \* declared length and present bytes vary independently
    {Frame(key, k, SubSeq(body \o PadBytes, 1, n)) :
        k \in 0..(Len(body) + MaxPad), n \in 0..(Len(body) + MaxPad)}
    \* one payload byte replaced
    \cup {Frame(key, Len(body), [body EXCEPT ![i] = c]) : i \in 1..Len(body), c \in CorruptBytes}
    \* a zero exponent, a two-byte length, a truncated header
    \cup {key \o <<0>> \o body, key \o <<2, 0, Len(body)>> \o body}
    \cup {SubSeq(key \o <<1, Len(body)>>, 1, h) : h \in 0..3}

FramesOf(q) == FramesFor(KeyOf(q), BodyOf(q))

DecodeInputs == UNION {FramesOf(q) : q \in RepPackets}

VariantNames == {Catalog[v].name : v \in Variants}

InitDecode ==
    /\ \E pre \in Prefixes, i \in DecodeInputs :
          /\ data = pre \o i
          /\ pos = Len(pre)
          /\ start = Len(pre)
    /\ overflow_checks \in BOOLEAN
    /\ pc = "ready"
    /\ op = ""
    /\ res = NoResult
    /\ pkt = NoPacket
    /\ file = NoFile
    /\ packets = <<>>
    /\ locals = NoLocals
    /\ length = UsizeZero
    /\ out = <<>>
    /\ stack = <<>>
    /\ clock = Epoch
    /\ legacy = NoLegacy

\* <variant v>::decode(&mut reader), for the variant whose key is under the
\* reader and for the first variant of the catalog
CallTypedDecode(v) ==
    /\ pc = "ready"
    /\ v = 1 \/ ReadExact(data, pos, 2).bytes = Catalog[v].key
    /\ res' = TypedDecode(v, data, pos)
    /\ pos' = res'.pos
    /\ op' = Catalog[v].name
    /\ pc' = "called"
    /\ ReaderFrame

\* Unsupported::decode(&mut reader)
CallUnsupportedDecode ==
    /\ pc = "ready"
    /\ res' = UnsupportedDecode(data, pos)
    /\ pos' = res'.pos
    /\ op' = "Unsupported::decode"
    /\ pc' = "called"
    /\ ReaderFrame

NextDecode ==
    \/ CallPacketDecode
    \/ \E v \in Variants : CallTypedDecode(v)
    \/ CallUnsupportedDecode

SpecDecode == InitDecode /\ [][NextDecode]_vars

\* C3: when a derived packet decoder or the Packet dispatcher returns an
\* error, the reader is back at the position it had when decode was called.
C3_RestartableDecode ==
    (pc = "called" /\ op \in VariantNames \cup {"Packet::decode"} /\ res.res = "err")
        => pos = start

\* C3 witness: Transition::decode read its key, PLen and fixed fields, and the
\* nested Packet::decode failed on a zero exponent
C3_Witness ==
    /\ pc = "called"
    /\ op = "Transition"
    /\ res.res = "err"
    /\ res.err = "ExponentIsZero"
    /\ res.payload_start > start
    /\ start > 0

\* C4: Packet::decode ends either with Ok and the cursor advanced, or with Err
\* and the cursor at the start position; it never panics or aborts.
C4_DispatcherTotal ==
    (pc = "called" /\ op = "Packet::decode") =>
        \/ res.res = "ok" /\ pos > start
        \/ res.res = "err" /\ pos = start

\* C7: when a derived packet decoder returns Ok, the cursor is exactly at
\* payload_start + plen.
C7_PayloadExact ==
    (pc = "called" /\ op \in VariantNames /\ res.res = "ok") =>
        (UsizeSmall(res.plen) /\ pos = res.payload_start + UsizeNat(res.plen))

\* the frame under the reader at the time of the call: its key, its PLen and
\* whether the declared payload is present
FramedKey == SubSeq(data, start + 1, start + 2)
FramedLen == PLenDecode(data, start + 2)
WellFramed ==
    /\ Len(data) >= start + 2
    /\ FramedLen.res = "ok"
    /\ UsizeSmall(FramedLen.len)
    /\ FramedLen.pos + UsizeNat(FramedLen.len) <= Len(data)
FramedPayload == SubSeq(data, FramedLen.pos + 1, FramedLen.pos + UsizeNat(FramedLen.len))

\* the errors of field validation
ValidationErrors == {"InvalidEnum", "InvalidBool", "InvalidUtf8", "WrongLength"}

FailsValidation(r) == r.res = "err" /\ r.err \in ValidationErrors

\* the variant that owns the key of the frame rejects the payload
TypedRejects ==
    /\ WellFramed
    /\ FramedKey \in CatalogKeys
    /\ FailsValidation(TypedDecode(KeyVariant(FramedKey), data, start))

\* C13: on a well-framed packet with a catalog key whose payload fails the
\* field validation of that variant, Packet::decode returns Ok(Unsupported)
\* with that key and exactly the plen payload bytes, and the cursor is at
\* payload_start + plen.
C13_FallThroughToUnsupported ==
    (pc = "called" /\ op = "Packet::decode" /\ TypedRejects) =>
        /\ res.res = "ok"
        /\ res.pkt = Pkt("Unsupported", <<FramedKey, FramedPayload>>)
        /\ pos = FramedLen.pos + UsizeNat(FramedLen.len)

\* C13 witness: a bool byte of 2 under a catalog key
C13_Witness ==
    /\ pc = "called"
    /\ op = "Packet::decode"
    /\ TypedRejects
    /\ TypedDecode(KeyVariant(FramedKey), data, start).err = "InvalidBool"
    /\ res.res = "ok"
    /\ res.pkt.tag = "Unsupported"
    /\ res.pkt.vals[1] \in CatalogKeys
    /\ start > 0

\* the typed decoders that return Ok on the bytes at p
Accepting(d, p) == {v \in Variants : TypedDecode(v, d, p).res = "ok"}

\* the fallback of the dispatcher
UnsupportedFallback(d, p) == Rewind(UnsupportedDecode(d, p), p)

\* the result r of the one decoder chosen by the key, or the fallback
KeyChosen(d, p, r) == IF r.res \in {"ok", "panic"} THEN r ELSE UnsupportedFallback(d, p)

\* a dispatcher that looks at the 2-byte key k and calls only the decoder that
\* owns it
KeyLookup(d, p, k) ==
    IF k.ok /\ k.bytes \in CatalogKeys
    THEN KeyChosen(d, p, TypedDecode(KeyVariant(k.bytes), d, p))
    ELSE UnsupportedFallback(d, p)

KeyDispatch(d, p) == KeyLookup(d, p, ReadExact(d, p, 2))

\* C19: the catalog keys of the typed variants are pairwise distinct, so on
\* every input at most one typed decoder returns Ok, and Packet::decode
\* returns what a selection of the decoder by the 2-byte key returns: the
\* declaration order of the variants does not matter.
C19_DispatchByKey ==
    /\ \A v \in Variants, w \in Variants : v # w => Catalog[v].key # Catalog[w].key
    /\ (pc = "called" /\ op = "Packet::decode") =>
          /\ Cardinality(Accepting(data, start)) <= 1
          /\ Cardinality(Decoding(data, start)) <= 1
          /\ res = KeyDispatch(data, start)

C19_Witness ==
    /\ pc = "called"
    /\ op = "Packet::decode"
    /\ res.res = "ok"
    /\ res.pkt.tag = "Verified"
    /\ Accepting(data, start) = {VariantOf("Verified")}
    /\ start > 0

\* C15: when Unsupported::decode is called directly and fails, the reader is
\* back at the position it had when the function was called.
C15_UnsupportedRestartable ==
    (pc = "called" /\ op = "Unsupported::decode" /\ res.res = "err") => pos = start

(***************************************************************************)
(* TasdFile: the header constants, TasdFile::encode and the steps of        *)
(* TasdFile::parse_slice                                                    *)
(***************************************************************************)
MAGIC_NUMBER == <<84, 65, 83, 68>>
LATEST_VERSION == <<0, 1>>

U16Bytes(n) == <<n \div 256, n % 256>>

\* path is <<>> (None) or <<p>> (Some(p))
TasdFile(version, keylen, pkts) ==
    [version |-> version, keylen |-> keylen, packets |-> pkts, path |-> <<>>]
DefaultFile == TasdFile(U16OfBytes(LATEST_VERSION), 2, <<>>)

\* a parse_slice without the check of the version
AnyVersion(version) == TRUE

\* [1..=1].iter().any(|range| range.contains(&version))
SupportedVersion(version) == version \in 1..1

\* an encoder that walks the list backwards
EncodePacketsReversed(pkts) ==
    Flatten([i \in 1..Len(pkts) |-> PacketEncode(pkts[Len(pkts) + 1 - i])])

EncodePackets(pkts) == Flatten([i \in 1..Len(pkts) |-> PacketEncode(pkts[i])])

FileEncode(f) ==
    MAGIC_NUMBER \o U16Bytes(f.version) \o <<f.keylen>> \o EncodePackets(f.packets)

\* the Result of parse_slice; inner is the DecodeError of TasdError::Packet
\* and magic the bytes carried by TasdError::MagicNumberMismatch
TR(r, e, inner, m, f) == [res |-> r, err |-> e, inner |-> inner, magic |-> m, file |-> f]
TasdErr(e) == TR("err", e, "", <<>>, NoFile)

ParseFrame == UNCHANGED <<data, overflow_checks, pkt, file, length, out, stack, clock, legacy>>

\* read_exact(&mut magic) and the comparison with MAGIC_NUMBER
ParseMagic ==
    /\ pc \in {"bytes", "magic"}
    /\ \E r \in {ReadExact(data, 0, 4)} :
          /\ pos' = r.pos
          /\ IF ~r.ok
             THEN res' = TasdErr("MissingHeader") /\ pc' = "done" /\ locals' = locals
             ELSE /\ locals' = [locals EXCEPT !.magic = r.bytes]
                  /\ IF r.bytes # MAGIC_NUMBER
                     THEN /\ res' = TR("err", "MagicNumberMismatch", "", r.bytes, NoFile)
                          /\ pc' = "done"
                     ELSE res' = NoResult /\ pc' = "version"
    /\ op' = "TasdFile::parse_slice"
    /\ start' = 0
    /\ packets' = <<>>
    /\ ParseFrame

\* u16::decode(&mut reader) and the check of the version
ParseVersion ==
    /\ pc = "version"
    /\ \E r \in {ReadExact(data, pos, 2)} :
          /\ pos' = r.pos
          /\ IF ~r.ok
             THEN res' = TasdErr("MissingHeader") /\ pc' = "done" /\ locals' = locals
             ELSE /\ locals' = [locals EXCEPT !.version = U16OfBytes(r.bytes)]
                  /\ IF ~SupportedVersion(U16OfBytes(r.bytes))
                     THEN res' = TasdErr("UnsupportedVersion") /\ pc' = "done"
                     ELSE res' = res /\ pc' = "keylen"
    /\ UNCHANGED <<start, op, packets>>
    /\ ParseFrame

\* u8::decode(&mut reader)
ParseKeylen ==
    /\ pc = "keylen"
    /\ \E r \in {ReadExact(data, pos, 1)} :
          /\ pos' = r.pos
          /\ IF ~r.ok
             THEN res' = TasdErr("MissingHeader") /\ pc' = "done" /\ locals' = locals
             ELSE /\ locals' = [locals EXCEPT !.keylen = r.bytes[1]]
                  /\ res' = res
                  /\ pc' = "loop"
    /\ UNCHANGED <<start, op, packets>>
    /\ ParseFrame

\* a match whose error arms go on with the next iteration
LoopSkipsErrors(d, r) ==
    IF r.res = "ok" THEN [next |-> "push", err |-> "", pos |-> r.pos, pkt |-> r.pkt]
    ELSE [next |-> "push", err |-> "", pos |-> r.pos, pkt |-> NoPacket]

\* the arms of the match on the result r of Packet::decode
LoopMatch(d, r) ==
    IF r.res = "ok" THEN [next |-> "push", err |-> "", pos |-> r.pos, pkt |-> r.pkt]
    ELSE IF r.res = "panic" THEN [next |-> "panic", err |-> r.err, pos |-> r.pos, pkt |-> NoPacket]
    ELSE IF r.err = "EndOfStream"
         THEN IF r.pos # Len(d)
              THEN [next |-> "return", err |-> r.err, pos |-> r.pos, pkt |-> NoPacket]
              ELSE [next |-> "break", err |-> "", pos |-> r.pos, pkt |-> NoPacket]
         ELSE [next |-> "return", err |-> r.err, pos |-> r.pos, pkt |-> NoPacket]

\* one iteration of the loop of parse_slice with the reader at p
LoopStep(d, p) == LoopMatch(d, PacketDecode(d, p))

\* match Packet::decode(&mut reader) { ... } and, after the break, Ok(Self {..})
ParsePacket ==
    /\ pc = "loop"
    /\ \E s \in {LoopStep(data, pos)} :
          /\ pos' = s.pos
          /\ packets' = IF s.next = "push" THEN Append(packets, s.pkt) ELSE packets
          /\ pc' = IF s.next = "push" THEN "loop" ELSE "done"
          /\ res' = CASE s.next = "push" -> res
                      [] s.next = "panic" -> TR("panic", s.err, "", <<>>, NoFile)
                      [] s.next = "return" -> TR("err", "Packet", s.err, <<>>, NoFile)
                      [] s.next = "break" ->
                            TR("ok", "", "", <<>>,
                               TasdFile(locals.version, locals.keylen, packets))
    /\ start' = pos
    /\ op' = "Packet::decode"
    /\ UNCHANGED locals
    /\ ParseFrame

\* f.encode(); the bytes are then handed to parse_slice
CallFileEncode ==
    /\ pc = "file"
    /\ out' = FileEncode(file)
    /\ data' = out'
    /\ pos' = 0
    /\ op' = "TasdFile::encode"
    /\ pc' = "bytes"
    /\ UNCHANGED <<start, overflow_checks, res, pkt, file, packets, locals, length, stack, clock, legacy>>

\* g.encode() of the file that parse_slice returned
ReEncode ==
    /\ pc = "done"
    /\ res.res = "ok"
    /\ out' = FileEncode(res.file)
    /\ op' = "TasdFile::encode"
    /\ pc' = "reencoded"
    /\ UNCHANGED <<data, pos, start, overflow_checks, res, pkt, file, packets, locals, length, stack, clock, legacy>>

RECURSIVE BigEndian(_, _)
\* n as k big-endian bytes
BigEndian(n, k) == IF k = 0 THEN <<>> ELSE BigEndian(n \div 256, k - 1) \o <<n % 256>>

\* key, pexp, plen as pexp big-endian bytes, payload
WireFrame(key, pexp, payload) == key \o <<pexp>> \o BigEndian(Len(payload), pexp) \o payload

(***************************************************************************)
(* SpecFile: a TasdFile of up to MaxPackets packets is encoded, a packet     *)
(* with an unknown key may be inserted at a packet boundary of the bytes,    *)
(* the bytes are parsed and the parsed file is encoded again                 *)
(***************************************************************************)
MaxPackets == 2
MaxPexp == 2

FilePackets ==
    {Pkt("GameTitle", <<<<>>>>),
     Pkt("GameTitle", <<<<48>>>>),
     Pkt("TotalFrames", <<<<0, 1>>>>),
     Pkt("Unsupported", <<<<165, 90>>, <<7>>>>),
     Pkt("Transition", <<1, 1, <<0, 0, 0, 1>>, 255, <<Pkt("TotalFrames", <<<<0, 1>>>>)>>>>),
     Pkt("MovieTransition", <<<<0, 1>>, 1, <<Pkt("GameTitle", <<<<48>>>>)>>>>)}

Files == {TasdFile(DefaultFile.version, DefaultFile.keylen, ps) : ps \in SeqsUpTo(FilePackets, MaxPackets)}

UnknownFrames ==
    {WireFrame(<<165, 90>>, e, d) : e \in 1..MaxPexp, d \in {<<>>, <<7>>}}

InitFile ==
    /\ file \in Files
    /\ data = <<>>
    /\ pos = 0
    /\ start = 0
    /\ overflow_checks \in BOOLEAN
    /\ pc = "file"
    /\ op = ""
    /\ res = NoResult
    /\ pkt = NoPacket
    /\ packets = <<>>
    /\ locals = NoLocals
    /\ length = UsizeZero
    /\ out = <<>>
    /\ stack = <<>>
    /\ clock = Epoch
    /\ legacy = NoLegacy

\* a writer of a later format version puts a packet this library does not know
\* between two packets of the file
InjectUnknown ==
    /\ pc = "bytes"
    /\ \E i \in 0..Len(file.packets), u \in UnknownFrames :
          data' = FileEncode(TasdFile(file.version, file.keylen, SubSeq(file.packets, 1, i)))
                  \o u \o EncodePackets(SubSeq(file.packets, i + 1, Len(file.packets)))
    /\ pc' = "magic"
    /\ UNCHANGED <<pos, start, overflow_checks, op, res, pkt, file, packets, locals, length, out, stack, clock, legacy>>

NextFile ==
    \/ CallFileEncode
    \/ InjectUnknown
    \/ ParseMagic
    \/ ParseVersion
    \/ ParseKeylen
    \/ ParsePacket
    \/ ReEncode

SpecFile == InitFile /\ [][NextFile]_vars

RECURSIVE LoopBreaks(_, _)
\* the loop of parse_slice started at p ends with the break
LoopBreaks(d, p) ==
    \E s \in {LoopStep(d, p)} :
        IF s.next = "push" THEN LoopBreaks(d, s.pos) ELSE s.next = "break"

\* parse_slice(d) returns Ok
Parses(d) ==
    /\ Len(d) >= 7
    /\ SubSeq(d, 1, 4) = MAGIC_NUMBER
    /\ SupportedVersion(U16OfBytes(SubSeq(d, 5, 6)))
    /\ LoopBreaks(d, 7)

\* the bytes under the reader are the encoding of the file with a packet inserted
Injected == pc \in {"magic", "version", "keylen", "loop", "done", "reencoded"}
            /\ data # FileEncode(file)

\* C2: for every TasdFile f, parse_slice(f.encode()) returns Ok(g) with the
\* version, the keylen and the packets of f.
C2_FileRoundTrip ==
    (pc = "done" /\ ~Injected) => (res.res = "ok" /\ res.file = file)

\* C6: when a well-framed packet with an unknown key is inserted at a packet
\* boundary of the bytes of a file that parses, the resulting bytes parse and
\* the parsed file encodes to exactly those bytes.
C6_ForwardCompatible ==
    (Injected /\ Parses(FileEncode(file))) =>
        /\ pc = "done" => res.res = "ok"
        /\ pc = "reencoded" => out = data

(***************************************************************************)
(* SpecOrder: a TasdFile is encoded, the bytes are parsed and the parsed     *)
(* file is encoded again                                                     *)
(***************************************************************************)
OrderPackets ==
    {Pkt("TotalFrames", <<<<0, 1>>>>),
     Pkt("GameTitle", <<<<48>>>>),
     Pkt("GameTitle", <<<<>>>>),
     Pkt("Unsupported", <<<<165, 90>>, <<7>>>>)}

OrderFiles ==
    {TasdFile(DefaultFile.version, DefaultFile.keylen, ps) : ps \in SeqsUpTo(OrderPackets, MaxPackets)}

InitOrder ==
    /\ file \in OrderFiles
    /\ data = <<>>
    /\ pos = 0
    /\ start = 0
    /\ overflow_checks \in BOOLEAN
    /\ pc = "file"
    /\ op = ""
    /\ res = NoResult
    /\ pkt = NoPacket
    /\ packets = <<>>
    /\ locals = NoLocals
    /\ length = UsizeZero
    /\ out = <<>>
    /\ stack = <<>>
    /\ clock = Epoch
    /\ legacy = NoLegacy

NextOrder ==
    \/ CallFileEncode
    \/ ParseMagic
    \/ ParseVersion
    \/ ParseKeylen
    \/ ParsePacket
    \/ ReEncode

SpecOrder == InitOrder /\ [][NextOrder]_vars

RECURSIVE PacketOffset(_, _)
\* where the encoding of pkts[i] begins when the packets follow the 7 header
\* bytes one after the other
PacketOffset(pkts, i) ==
    IF i = 1 THEN 7 ELSE PacketOffset(pkts, i - 1) + Len(PacketEncode(pkts[i - 1]))

\* bytes is the header of f followed by the encodings of its packets in list
\* order and nothing else
EncodedInOrder(bytes, f) ==
    /\ Len(bytes) = PacketOffset(f.packets, Len(f.packets) + 1)
    /\ SubSeq(bytes, 1, 4) = MAGIC_NUMBER
    /\ SubSeq(bytes, 5, 6) = U16Bytes(f.version)
    /\ bytes[7] = f.keylen
    /\ \A i \in 1..Len(f.packets) :
          SubSeq(bytes, PacketOffset(f.packets, i) + 1, PacketOffset(f.packets, i + 1))
              = PacketEncode(f.packets[i])

RECURSIVE FrameOffset(_, _)
\* where the i-th packet of the byte stream d begins
FrameOffset(d, i) == IF i = 1 THEN 7 ELSE PacketDecode(d, FrameOffset(d, i - 1)).pos

\* pkts[i] is the i-th packet of the byte stream d
ParsedInOrder(d, pkts) ==
    \A i \in 1..Len(pkts) :
        /\ PacketDecode(d, FrameOffset(d, i)).res = "ok"
        /\ PacketDecode(d, FrameOffset(d, i)).pkt = pkts[i]
        /\ FrameOffset(d, i + 1) > FrameOffset(d, i)

\* C17: TasdFile::encode emits the 4 magic bytes, the 2 version bytes, the
\* keylen byte and then the encodings of packets[0], packets[1], ... in list
\* order with nothing between them; parse_slice collects and returns the
\* packets in the order they occur in the byte stream.
C17_PacketOrderPreserved ==
    /\ pc \in {"bytes", "magic", "version", "keylen", "loop", "done"} => EncodedInOrder(out, file)
    /\ pc = "reencoded" => EncodedInOrder(out, res.file)
    /\ pc \in {"loop", "done"} => ParsedInOrder(data, packets)
    /\ (pc \in {"done", "reencoded"} /\ res.res = "ok") =>
          (res.file.packets = packets /\ ParsedInOrder(data, res.file.packets))

C17_Witness ==
    /\ pc = "done"
    /\ res.res = "ok"
    /\ file.packets = <<Pkt("TotalFrames", <<<<0, 1>>>>), Pkt("GameTitle", <<<<48>>>>)>>
    /\ out = FileEncode(file)
    /\ data = out
    /\ res.file.packets = file.packets

(***************************************************************************)
(* SpecParse: parse_slice on byte strings: every prefix of a header          *)
(* followed by up to MaxPackets frames, with good and bad magic numbers and  *)
(* versions                                                                  *)
(***************************************************************************)
Magics == {MAGIC_NUMBER, <<84, 65, 83, 69>>, <<0, 65, 83, 68>>}
Versions == {LATEST_VERSION, <<0, 0>>, <<0, 2>>, <<1, 1>>}
Keylens == {DefaultFile.keylen}
Headers == {m \o v \o <<k>> : m \in Magics, v \in Versions, k \in Keylens}

ParseFrames ==
    {PacketEncode(Pkt("GameTitle", <<<<48>>>>)),
     PacketEncode(Pkt("GameTitle", <<<<>>>>)),
     PacketEncode(Pkt("TotalFrames", <<<<0, 1>>>>)),
     PacketEncode(Pkt("Transition", <<1, 1, <<0, 0, 0, 1>>, 255, <<Pkt("TotalFrames", <<<<0, 1>>>>)>>>>)),
     WireFrame(<<165, 90>>, 1, <<7>>),
     WireFrame(<<165, 90>>, MaxPexp, <<>>),
     \* TotalFrames and InputChunk with a declared length next to the real one
     <<0, 13, 1, 5, 0, 0, 0, 1, 9>>,
     <<254, 1, 1, 0, 7>>}

Bodies == {Flatten(fs) : fs \in SeqsUpTo(ParseFrames, MaxPackets)}

PrefixesOf(d) == {SubSeq(d, 1, n) : n \in 0..Len(d)}

ParseInputs ==
    UNION {PrefixesOf(MAGIC_NUMBER \o LATEST_VERSION \o <<k>> \o b) : k \in Keylens, b \in Bodies}
    \cup UNION {PrefixesOf(h \o b) : h \in Headers, b \in ParseFrames}

InitParse ==
    /\ data \in ParseInputs
    /\ pos = 0
    /\ start = 0
    /\ overflow_checks \in BOOLEAN
    /\ pc = "magic"
    /\ op = ""
    /\ res = NoResult
    /\ pkt = NoPacket
    /\ file = NoFile
    /\ packets = <<>>
    /\ locals = NoLocals
    /\ length = UsizeZero
    /\ out = <<>>
    /\ stack = <<>>
    /\ clock = Epoch
    /\ legacy = NoLegacy

NextParse ==
    \/ ParseMagic
    \/ ParseVersion
    \/ ParseKeylen
    \/ ParsePacket
    \/ ReEncode

SpecParse == InitParse /\ [][NextParse]_vars

RECURSIVE BigEndianValue(_)
BigEndianValue(b) == IF b = <<>> THEN 0 ELSE BigEndianValue(Front(b)) * 256 + b[Len(b)]

\* the bytes of d from position p on are the beginning of a frame (key, pexp,
\* plen, payload) and end before the frame does
TruncatedAt(d, p) ==
    LET n == Len(d) - p IN
    /\ n >= 1
    /\ \/ n < 3
       \/ /\ d[p + 3] >= 1
          /\ \/ n < 3 + d[p + 3]
             \/ n < 3 + d[p + 3] + BigEndianValue(SubSeq(d, p + 4, p + 3 + d[p + 3]))

\* C8: parse_slice returns Ok only with the reader at the end of the input,
\* and when the bytes after the last decoded packet are a truncated packet it
\* returns the EndOfStream error.
C8_EndAtPacketBoundary ==
    /\ (pc = "done" /\ res.res = "ok") => pos = Len(data)
    /\ (op = "Packet::decode" /\ TruncatedAt(data, start)) =>
          (pc = "done" /\ res.res = "err" /\ res.err = "Packet" /\ res.inner = "EndOfStream")

\* the error the header of d calls for, "" when the header is accepted
HeaderError(d) ==
    IF Len(d) < 4 THEN "MissingHeader"
    ELSE IF SubSeq(d, 1, 4) # <<84, 65, 83, 68>> THEN "MagicNumberMismatch"
    ELSE IF Len(d) < 6 THEN "MissingHeader"
    ELSE IF SubSeq(d, 5, 6) # <<0, 1>> THEN "UnsupportedVersion"
    ELSE IF Len(d) < 7 THEN "MissingHeader"
    ELSE ""

\* C9: parse_slice answers a short header with MissingHeader, a wrong magic
\* number with MagicNumberMismatch carrying the four bytes read, a version
\* other than 1 with UnsupportedVersion, in this order, and decodes no packet
\* in any of these cases.
C9_HeaderValidation ==
    HeaderError(data) # "" =>
        /\ pc \in {"magic", "version", "keylen", "done"}
        /\ packets = <<>>
        /\ op # "Packet::decode"
        /\ pc = "done" =>
              /\ res.res = "err"
              /\ res.err = HeaderError(data)
              /\ res.err = "MagicNumberMismatch" => res.magic = SubSeq(data, 1, 4)

C9_Witness ==
    /\ pc = "done"
    /\ res.res = "err"
    /\ res.err = "UnsupportedVersion"
    /\ SubSeq(data, 1, 6) = MAGIC_NUMBER \o <<0, 2>>
    /\ Len(data) > 7

(***************************************************************************)
(* SpecPLenEncode: PLen(len).encode for lengths over the whole machine word  *)
(***************************************************************************)
EncodeDigits == {0, 1, 255}

InitPLenEncode ==
    /\ length \in [1..UsizeBytes -> EncodeDigits]
    /\ data = <<>>
    /\ pos = 0
    /\ start = 0
    /\ overflow_checks = TRUE
    /\ pc = "built"
    /\ op = ""
    /\ res = NoResult
    /\ pkt = NoPacket
    /\ file = NoFile
    /\ packets = <<>>
    /\ locals = NoLocals
    /\ out = <<>>
    /\ stack = <<>>
    /\ clock = Epoch
    /\ legacy = NoLegacy

\* PLen(len).encode(&mut writer)
CallPLenEncode ==
    /\ pc = "built"
    /\ res' = PLenEncodeUsize(length)
    /\ out' = res'.bytes
    /\ op' = "PLen::encode"
    /\ pc' = "called"
    /\ UNCHANGED <<data, pos, start, overflow_checks, pkt, file, packets, locals, length, stack, clock, legacy>>

NextPLenEncode == CallPLenEncode

SpecPLenEncode == InitPLenEncode /\ [][NextPLenEncode]_vars

\* C11: for every length n > 0, PLen::encode writes an exponent byte e >= 1 and
\* the e big-endian bytes of n, the first of them not zero (e is the number of
\* bytes n needs), and returns 1 + e.
C11_PLenMinimal ==
    (pc = "called" /\ op = "PLen::encode" /\ ~UsizeIsZero(length)) =>
        /\ Len(out) = 1 + Len(StripZeros(length))
        /\ out[1] = Len(StripZeros(length))
        /\ out[1] >= 1
        /\ out[2] # 0
        /\ SubSeq(out, 2, Len(out)) = StripZeros(length)
        /\ res.written = 1 + out[1]

C11_Witness ==
    /\ pc = "called"
    /\ op = "PLen::encode"
    /\ length = <<0, 0, 0, 0, 0, 1, 0, 255>>
    /\ out = <<3, 1, 0, 255>>

(***************************************************************************)
(* SpecString: MovieFile packets whose #[u8_string] name is up to a few      *)
(* bytes longer than 255, with a multi-byte character around byte 255, are   *)
(* encoded and decoded                                                       *)
(***************************************************************************)
MaxTrail == 2

\* "0", U+00E9, U+20AC, U+1F600
StringChars == {<<48>>, <<195, 169>>, <<226, 130, 172>>, <<240, 159, 152, 128>>}

Ascii(n) == [i \in 1..n |-> 48]

LongNames ==
    {Ascii(k) \o c \o Ascii(m) : k \in (0..1) \cup (250..256), c \in StringChars, m \in 0..MaxTrail}

InitString ==
    /\ \E s \in LongNames : pkt = Pkt("MovieFile", <<s, <<>>>>)
    /\ data = <<>>
    /\ pos = 0
    /\ start = 0
    /\ overflow_checks \in BOOLEAN
    /\ pc = "built"
    /\ op = ""
    /\ res = NoResult
    /\ file = NoFile
    /\ packets = <<>>
    /\ locals = NoLocals
    /\ length = UsizeZero
    /\ out = <<>>
    /\ stack = <<>>
    /\ clock = Epoch
    /\ legacy = NoLegacy

NextString == CallPacketEncode \/ CallPacketDecode

SpecString == InitString /\ [][NextString]_vars

\* index i of the well-formed UTF-8 string s is a code-point boundary
IsCharBoundary(s, i) == i = 0 \/ i = Len(s) \/ (i < Len(s) /\ s[i + 1] \notin 128..191)

\* the largest code-point boundary of s that is not above 255
LargestBoundary(s) ==
    SetMax({i \in 0..(IF Len(s) < 255 THEN Len(s) ELSE 255) : IsCharBoundary(s, i)})

\* the payload of the packet in out: what follows the key and the PLen
PayloadOfOut == SubSeq(out, 4 + out[3], Len(out))

\* C12: the u8_string encoder writes a length byte L and L bytes, L being the
\* largest code-point boundary of the string not above 255 and the bytes the
\* prefix of the string of that length (so L = len(s) when len(s) <= 255).
C12_Utf8BoundarySafe ==
    (pc \in {"ready", "called"} /\ pkt.tag = "MovieFile") =>
        /\ PayloadOfOut[1] = LargestBoundary(pkt.vals[1])
        /\ Len(PayloadOfOut) = 1 + PayloadOfOut[1]
        /\ Tail(PayloadOfOut) = SubSeq(pkt.vals[1], 1, PayloadOfOut[1])
        /\ IsUtf8(Tail(PayloadOfOut))
        /\ Len(pkt.vals[1]) <= 255 => PayloadOfOut[1] = Len(pkt.vals[1])

C12_Witness ==
    /\ pc = "ready"
    /\ pkt.tag = "MovieFile"
    /\ Len(pkt.vals[1]) = 257
    /\ SubSeq(pkt.vals[1], 254, 256) = <<226, 130, 172>>
    /\ PayloadOfOut[1] = 253

(***************************************************************************)
(* SpecNest: Packet::decode on Transition / MovieTransition packets nested   *)
(* inside one another.  Each call of Packet::decode made for an inner_packet *)
(* is a step, and stack holds the calls that wait for it to return.          *)
(***************************************************************************)
MaxNest == 34

WrapperKeys == {Catalog[VariantOf("Transition")].key, Catalog[VariantOf("MovieTransition")].key}

\* the fields before inner_packet
WrapperValues(tag) ==
    IF tag = "Transition" THEN <<1, 1, <<0, 0, 0, 1>>, 255>> ELSE <<<<0, 1>>, 1>>

NestLeaves ==
    {Pkt("GameTitle", <<<<48>>>>),
     Pkt("MovieTransition", <<<<0, 1>>, 1, <<>>>>),
     Pkt("Unsupported", <<<<165, 90>>, <<>>>>)}

InitNest ==
    /\ pkt \in NestLeaves
    /\ data = PacketEncode(pkt)
    /\ pos = 0
    /\ start = 0
    /\ overflow_checks \in BOOLEAN
    /\ pc = "ready"
    /\ op = ""
    /\ res = NoResult
    /\ file = NoFile
    /\ packets = <<>>
    /\ locals = NoLocals
    /\ length = UsizeZero
    /\ out = <<>>
    /\ stack = <<>>
    /\ clock = Epoch
    /\ legacy = NoLegacy

\* the encoding of a wrapper around the packet whose encoding is inner
WrapperEncode(tag, inner) ==
    WritePacket(Catalog[VariantOf(tag)].key,
                EncodeFields(Front(Catalog[VariantOf(tag)].fields), WrapperValues(tag)) \o inner)

\* the reader's packet is put into the inner_packet of one more wrapper
NestInput ==
    /\ pc = "ready"
    /\ Depth(pkt) < MaxNest
    /\ \E tag \in {"Transition", "MovieTransition"} :
          /\ Depth(pkt) > 0 => tag = pkt.tag
          /\ pkt' = Pkt(tag, Append(WrapperValues(tag), <<pkt>>))
          /\ data' = WrapperEncode(tag, data)
    /\ UNCHANGED <<pos, start, overflow_checks, pc, op, res, file, packets, locals, length, out, stack, clock, legacy>>

\* a call of Packet::decode that waits for its inner_packet
NoCall ==
    [calls |-> FALSE, v |-> 0, packet_start |-> 0, plen |-> UsizeZero, payload_start |-> 0,
     vals |-> <<>>, pos |-> 0]

\* the wrapper's try_decode up to the Packet::decode of its inner_packet: the
\* key k, the length l, the fields fs before the tail and the tail length t
CallAfterFields(v, p, l, fs, t) ==
    IF fs.res = "ok" /\ ~t.panic /\ ~UsizeIsZero(t.len)
    THEN [calls |-> TRUE, v |-> v, packet_start |-> p, plen |-> l.len, payload_start |-> l.pos,
          vals |-> fs.val, pos |-> fs.pos]
    ELSE NoCall

CallAfterLength(v, p, l, fs) == CallAfterFields(v, p, l, fs, TailLen(l.len, fs.pos - l.pos))

CallAfterKey(v, d, p, l) ==
    IF l.res # "ok" THEN NoCall
    ELSE CallAfterLength(v, p, l,
                         DecodeFields(Front(Catalog[v].fields), 1, d, l.pos, l.len, l.pos, <<>>))

NestedCall(d, p, k) ==
    IF k.ok /\ k.bytes \in WrapperKeys
    THEN CallAfterKey(KeyVariant(k.bytes), d, p, PLenDecode(d, k.pos))
    ELSE NoCall

\* Packet::decode is entered at pos: either it reaches the Packet::decode of
\* an inner_packet, or it returns without a nested call
EnterPacketDecode ==
    /\ pc \in {"ready", "decoding"}
    /\ \E c \in {NestedCall(data, pos, ReadExact(data, pos, 2))} :
          IF c.calls
          THEN /\ stack' = Append(stack, c)
               /\ pos' = c.pos
               /\ res' = res
               /\ pc' = "decoding"
          ELSE /\ stack' = stack
               /\ res' = PacketDecode(data, pos)
               /\ pos' = res'.pos
               /\ pc' = IF stack = <<>> THEN "called" ELSE "returning"
    /\ op' = "Packet::decode"
    /\ UNCHANGED <<data, start, overflow_checks, pkt, file, packets, locals, length, out, clock, legacy>>

\* what the waiting call f makes of the result r of the nested call: the
\* struct, or after the seek back Unsupported::decode from packet_start
WrapperResult(f, r, d) ==
    IF r.res = "ok"
    THEN DR("ok", "", Pkt(Catalog[f.v].name, Append(f.vals, <<r.pkt>>)), r.pos, f.plen,
            f.payload_start)
    ELSE IF r.res = "panic" THEN DR("panic", r.err, NoPacket, r.pos, f.plen, f.payload_start)
    ELSE Rewind(UnsupportedDecode(d, f.packet_start), f.packet_start)

\* the nested Packet::decode returns to the call on top of the stack
ReturnNested ==
    /\ pc = "returning"
    /\ stack # <<>>
    /\ res' = WrapperResult(stack[Len(stack)], res, data)
    /\ pos' = res'.pos
    /\ stack' = Front(stack)
    /\ pc' = IF Len(stack) = 1 THEN "called" ELSE "returning"
    /\ UNCHANGED <<data, start, overflow_checks, op, pkt, file, packets, locals, length, out, clock, legacy>>

NextNest == NestInput \/ EnterPacketDecode \/ ReturnNested

SpecNest == InitNest /\ [][NextNest]_vars

\* C14: the nesting of Packet::decode calls stops at a fixed maximum depth
\* (32): a packet nested deeper is rejected, the decoder does not recurse
\* once per nesting level of its input.
C14_RecursionLimit == Len(stack) <= 32

(***************************************************************************)
(* The wire layout of a packet, under SpecCodec                             *)
(***************************************************************************)
\* the exponent byte, the length bytes and the rest of the bytes in out
OutExponent == out[3]
OutLength == BigEndianValue(SubSeq(out, 4, 3 + OutExponent))
OutPayload == SubSeq(out, 4 + OutExponent, Len(out))

\* the field encodings of pkt in declaration order, one after the other
FieldBytes ==
    IF pkt.tag = "Unsupported" THEN pkt.vals[2]
    ELSE Flatten([i \in 1..Len(pkt.vals) |->
                     EncodeField(Catalog[VariantOf(pkt.tag)].fields[i], pkt.vals[i])])

\* C16: encode emits the 2-byte key, then PLen(L), then the payload, which is
\* the concatenation of the field encodings in declaration order and L bytes
\* long; the returned count is the number of bytes written, 2 + size of PLen
\* + L.  ConsoleType{Custom, "0123456789"} gives 00 01 01 0B FF 30..39 (15)
\* and Unsupported{A5 5A, "0123456789"} gives A5 5A 01 0A 30..39 (14).
C16_WireLayout ==
    (pc = "ready" /\ op = "Packet::encode") =>
        /\ SubSeq(out, 1, 2) = KeyOf(pkt)
        /\ Len(out) >= 3 + OutExponent
        /\ OutLength = Len(OutPayload)
        /\ OutPayload = FieldBytes
        /\ res.res = "ok"
        /\ res.written = Len(out)
        /\ res.written = 2 + (1 + OutExponent) + OutLength
        /\ pkt = Pkt("ConsoleType", <<255, Digits>>) =>
              out = <<0, 1, 1, 11, 255>> \o Digits /\ res.written = 15
        /\ pkt = Pkt("Unsupported", <<<<165, 90>>, Digits>>) =>
              out = <<165, 90, 1, 10>> \o Digits /\ res.written = 14

C16_Witness ==
    /\ pc = "ready"
    /\ op = "Packet::encode"
    /\ pkt = Pkt("ConsoleType", <<255, Digits>>)
    /\ out = <<0, 1, 1, 11, 255, 48, 49, 50, 51, 52, 53, 54, 55, 56, 57>>
    /\ res.written = 15

(***************************************************************************)
(* SpecNew: TasdFile::new() at some reading of the clock; the file is then   *)
(* encoded, parsed and encoded again                                         *)
(***************************************************************************)
\* seconds since the epoch that fit an i64, as limbs
ClockLimbs == {0, 1, 65535}
Clocks == {<<a, b, c, d>> : a \in {0, 1, 32767}, b \in ClockLimbs, c \in ClockLimbs, d \in ClockLimbs}

\* DumpCreated::now()
DumpCreatedNow(now) == Pkt("DumpCreated", <<now>>)

\* a constructor that pushes nothing
NewWithoutStamp(now) == DefaultFile

\* TasdFile::new(): the default file with DumpCreated::now() pushed
TasdFileNew(now) == [DefaultFile EXCEPT !.packets = Append(@, DumpCreatedNow(now))]

InitNew ==
    /\ clock \in Clocks
    /\ legacy = NoLegacy
    /\ file = NoFile
    /\ data = <<>>
    /\ pos = 0
    /\ start = 0
    /\ overflow_checks \in BOOLEAN
    /\ pc = "start"
    /\ op = ""
    /\ res = NoResult
    /\ pkt = NoPacket
    /\ packets = <<>>
    /\ locals = NoLocals
    /\ length = UsizeZero
    /\ out = <<>>
    /\ stack = <<>>

CallNew ==
    /\ pc = "start"
    /\ file' = TasdFileNew(clock)
    /\ op' = "TasdFile::new"
    /\ pc' = "file"
    /\ UNCHANGED <<data, pos, start, overflow_checks, res, pkt, packets, locals, length, out,
                   stack, clock, legacy>>

NextNew ==
    \/ CallNew
    \/ CallFileEncode
    \/ ParseMagic
    \/ ParseVersion
    \/ ParseKeylen
    \/ ParsePacket
    \/ ReEncode

SpecNew == InitNew /\ [][NextNew]_vars

\* C18: TasdFile::new() returns a container with version 0x0001, keylen 2, no
\* path, and a packet list whose only element is a DumpCreated packet that
\* carries the clock's current Unix seconds.
C18_NewFile ==
    pc # "start" =>
        /\ file.version = 1
        /\ file.keylen = 2
        /\ file.path = <<>>
        /\ Len(file.packets) = 1
        /\ file.packets[1].tag = "DumpCreated"
        /\ file.packets[1].vals = <<clock>>

C18_Witness ==
    /\ pc = "file"
    /\ op = "TasdFile::new"
    /\ clock = <<0, 1, 65535, 0>>
    /\ file.packets = <<Pkt("DumpCreated", <<<<0, 1, 65535, 0>>>>)>>

(***************************************************************************)
(* SpecLegacy: R08::try_from on TasdFiles with up to MaxLegacy packets       *)
(***************************************************************************)
MaxLegacy == 3

\* Result<R08, LegacyError>
R08Result(r, e, inputs) == [res |-> r, err |-> e, pos |-> 0, inputs |-> inputs]

IsPortController(q) == q.tag = "PortController"

\* the filter_map over tasd.packets that keeps the PortController packets
PortControllers(pkts) == SelectSeq(pkts, IsPortController)

\* the fold over the InputChunk packets: the inputs of the chunks of one port
PortInputs(pkts, port) ==
    Flatten([i \in 1..Len(pkts) |->
                IF pkts[i].tag = "InputChunk" /\ pkts[i].vals[1] = port THEN pkts[i].vals[2]
                ELSE <<>>])

\* Vec::resize(n, 0xFF) of the shorter list
ResizeTo(p, n) == IF Len(p) < n THEN p \o [i \in 1..(n - Len(p)) |-> 255] ELSE p

\* [p1[i] ^ 0xFF, p2[i] ^ 0xFF]
R08Inputs(p1, p2) == [i \in 1..Len(p1) |-> <<255 - p1[i], 255 - p2[i]>>]

R08FromPorts(p1, p2) ==
    R08Result("ok", "", R08Inputs(ResizeTo(p1, Len(p2)), ResizeTo(p2, Len(p1))))

\* the checks of the PortController packets ports, then the conversion
R08Checked(pkts, ports) ==
    IF ports = <<>> THEN R08Result("err", "MissingPortControllers", <<>>)
    ELSE IF \E i \in 1..Len(ports) : ports[i].vals[2] # 257
         THEN R08Result("err", "UnsupportedControllers", <<>>)
    ELSE R08FromPorts(PortInputs(pkts, 1), PortInputs(pkts, 2))

\* impl TryFrom<TasdFile> for R08
R08TryFrom(f) == R08Checked(f.packets, PortControllers(f.packets))

LegacyPackets ==
    {Pkt("PortController", <<1, 257>>),
     Pkt("PortController", <<2, 257>>),
     Pkt("PortController", <<2, 258>>),
     Pkt("InputChunk", <<1, <<1>>>>),
     Pkt("InputChunk", <<2, <<2, 3>>>>)}

LegacyFiles ==
    {TasdFile(DefaultFile.version, DefaultFile.keylen, ps) : ps \in SeqsUpTo(LegacyPackets, MaxLegacy)}

InitLegacy ==
    /\ file \in LegacyFiles
    /\ data = <<>>
    /\ pos = 0
    /\ start = 0
    /\ overflow_checks \in BOOLEAN
    /\ pc = "file"
    /\ op = ""
    /\ res = NoResult
    /\ pkt = NoPacket
    /\ packets = <<>>
    /\ locals = NoLocals
    /\ length = UsizeZero
    /\ out = <<>>
    /\ stack = <<>>
    /\ clock = Epoch
    /\ legacy = NoLegacy

\* R08::try_from(tasd)
CallTryFrom ==
    /\ pc = "file"
    /\ res' = R08TryFrom(file)
    /\ op' = "R08::try_from"
    /\ pc' = "called"
    /\ UNCHANGED <<data, pos, start, overflow_checks, pkt, file, packets, locals, length, out,
                   stack, clock, legacy>>

NextLegacy == CallTryFrom

SpecLegacy == InitLegacy /\ [][NextLegacy]_vars

\* the file holds exactly two PortController packets, both of kind 0x0101
TwoStandardControllers(f) ==
    /\ Len(PortControllers(f.packets)) = 2
    /\ \A i \in 1..2 : PortControllers(f.packets)[i].vals[2] = 257

\* C20: R08::try_from fails with MissingPortControllers or
\* UnsupportedControllers unless the file holds exactly two PortController
\* packets and both have kind 0x0101; a file with one, or with three or more,
\* PortController packets of kind 0x0101 is not converted.
C20_R08Precondition ==
    (pc = "called" /\ op = "R08::try_from" /\ ~TwoStandardControllers(file)) =>
        (res.res = "err" /\ res.err \in {"MissingPortControllers", "UnsupportedControllers"})

(***************************************************************************)
(* SpecR08: TasdFile::from on R08 values of up to MaxFrames frames, then     *)
(* R08::try_from on the file it built                                        *)
(***************************************************************************)
MaxFrames == 2

\* input[0] ^ 0xFF or input[1] ^ 0xFF of every frame
FrameColumn(inputs, k) == [i \in 1..Len(inputs) |-> 255 - inputs[i][k]]

\* the PortController and the InputChunk of one port, pushed when it has inputs
PortPackets(port, p) ==
    IF p = <<>> THEN [controller |-> <<>>, chunk |-> <<>>]
    ELSE [controller |-> <<Pkt("PortController", <<port, 257>>)>>,
          chunk |-> <<Pkt("InputChunk", <<port, p>>)>>]

\* the pushes after TasdFile::new(): ConsoleType { kind: 0x01, custom: None },
\* the PortControllers of ports 1 and 2, then their InputChunks
R08Packets(one, two) ==
    <<Pkt("ConsoleType", <<1, <<>>>>)>> \o one.controller \o two.controller
        \o one.chunk \o two.chunk

\* impl From<R08> for TasdFile
TasdFromR08(r, now) ==
    [TasdFileNew(now) EXCEPT
        !.packets = @ \o R08Packets(PortPackets(1, FrameColumn(r.inputs, 1)),
                                    PortPackets(2, FrameColumn(r.inputs, 2)))]

FrameBytes == {0, 165, 255}
Frames == {<<a, b>> : a \in FrameBytes, b \in FrameBytes}
R08Values == {R08(inputs) : inputs \in SeqsUpTo(Frames, MaxFrames)}

InitR08 ==
    /\ legacy \in R08Values
    /\ clock \in {Epoch, <<0, 0, 1, 2>>}
    /\ file = NoFile
    /\ data = <<>>
    /\ pos = 0
    /\ start = 0
    /\ overflow_checks \in BOOLEAN
    /\ pc = "legacy"
    /\ op = ""
    /\ res = NoResult
    /\ pkt = NoPacket
    /\ packets = <<>>
    /\ locals = NoLocals
    /\ length = UsizeZero
    /\ out = <<>>
    /\ stack = <<>>

\* TasdFile::from(legacy)
CallFromR08 ==
    /\ pc = "legacy"
    /\ file' = TasdFromR08(legacy, clock)
    /\ op' = "TasdFile::from"
    /\ pc' = "file"
    /\ UNCHANGED <<data, pos, start, overflow_checks, res, pkt, packets, locals, length, out,
                   stack, clock, legacy>>

NextR08 ==
    \/ CallFromR08
    \/ CallTryFrom

SpecR08 == InitR08 /\ [][NextR08]_vars

\* C21: for every R08 value r, of any number of frames including none,
\* R08::try_from(TasdFile::from(r)) returns Ok(r).
C21_R08RoundTrip ==
    (pc = "called" /\ op = "R08::try_from") =>
        (res.res = "ok" /\ res.inputs = legacy.inputs)

(***************************************************************************)
(* The Option<Box<Packet>> tail of Transition and MovieTransition            *)
(***************************************************************************)
NestingVariants == {"Transition", "MovieTransition"}

\* the bytes of the fields before the tail field
FixedFieldsWidth(fs) ==
    Len(Flatten([i \in 1..(Len(fs) - 1) |-> [j \in 1..FixedWidth(fs[i]) |-> 0]]))

DecodedInner == res.pkt.vals[Len(res.pkt.vals)]
DecodedFixedWidth == FixedFieldsWidth(Catalog[VariantOf(op)].fields)

\* C22: when Transition or MovieTransition decode succeeds and plen exceeds
\* the width of the fixed fields, inner_packet is Some and the nested
\* Packet::decode consumed exactly the remaining plen - fixed_width bytes, so
\* the cursor is at payload_start + plen; when plen equals the width of the
\* fixed fields, inner_packet is None and nothing is read after them.
C22_NestedFillsTail ==
    (pc = "called" /\ op \in NestingVariants /\ res.res = "ok" /\ UsizeSmall(res.plen)) =>
        /\ UsizeNat(res.plen) > DecodedFixedWidth =>
                (DecodedInner # <<>> /\ pos = res.payload_start + UsizeNat(res.plen))
        /\ UsizeNat(res.plen) = DecodedFixedWidth =>
                (DecodedInner = <<>> /\ pos = res.payload_start + DecodedFixedWidth)

(***************************************************************************)
(* SpecPLenRound: PLen::encode of a length, then PLen::decode on a reader    *)
(* over the emitted bytes and up to MaxAfter bytes that follow them          *)
(***************************************************************************)
MaxAfter == 1

AfterBytes == UNION {[1..n -> {0, 7}] : n \in 0..MaxAfter}

\* PLen::decode(&mut Cursor::new(emitted bytes, then the bytes after them))
CallDecodeEmitted ==
    /\ pc = "called"
    /\ op = "PLen::encode"
    /\ \E after \in AfterBytes : data' = out \o after
    /\ start' = 0
    /\ res' = PLenDecode(data', 0)
    /\ pos' = res'.pos
    /\ op' = "PLen::decode"
    /\ pc' = "decoded"
    /\ UNCHANGED <<overflow_checks, pkt, file, packets, locals, length, out, stack, clock, legacy>>

NextPLenRound ==
    \/ CallPLenEncode
    \/ CallDecodeEmitted

SpecPLenRound == InitPLenEncode /\ [][NextPLenRound]_vars

\* C23: PLen::encode of length 0 emits the single byte 0x00 and returns 1, and
\* PLen::decode of those bytes fails with ExponentIsZero; for every n > 0
\* PLen::decode of the bytes PLen::encode(n) emitted returns n with the cursor
\* just after the emitted bytes.
C23_PLenZeroAsymmetry ==
    /\ (pc = "called" /\ op = "PLen::encode" /\ UsizeIsZero(length)) =>
            (out = <<0>> /\ res.written = 1)
    /\ (pc = "decoded" /\ UsizeIsZero(length)) =>
            (res.res = "err" /\ res.err = "ExponentIsZero")
    /\ (pc = "decoded" /\ ~UsizeIsZero(length)) =>
            (res.res = "ok" /\ res.len = length /\ pos = Len(out))

\* C23 witness: 0x01FF00 was encoded as 03 01 FF 00 and decoded back from a
\* reader that holds one more byte
C23_Witness ==
    /\ pc = "decoded"
    /\ length = <<0, 0, 0, 0, 0, 1, 255, 0>>
    /\ out = <<3, 1, 255, 0>>
    /\ Len(data) = 5
    /\ res.res = "ok"
    /\ res.len = length
    /\ pos = 4

(***************************************************************************)
(* SpecKeylen: parse_slice on a complete header whose keylen byte varies,    *)
(* followed by up to MaxKeyed frames with 2-byte keys                        *)
(***************************************************************************)
MaxKeyed == 1

KeylenBytes == {0, 1, 2, 3, 255}

KeylenInputs ==
    {MAGIC_NUMBER \o LATEST_VERSION \o <<k>> \o Flatten(fs) :
        k \in KeylenBytes, fs \in SeqsUpTo(ParseFrames, MaxKeyed)}

InitKeylen ==
    /\ data \in KeylenInputs
    /\ pos = 0
    /\ start = 0
    /\ overflow_checks \in BOOLEAN
    /\ pc = "magic"
    /\ op = ""
    /\ res = NoResult
    /\ pkt = NoPacket
    /\ file = NoFile
    /\ packets = <<>>
    /\ locals = NoLocals
    /\ length = UsizeZero
    /\ out = <<>>
    /\ stack = <<>>
    /\ clock = Epoch
    /\ legacy = NoLegacy

NextKeylen ==
    \/ ParseMagic
    \/ ParseVersion
    \/ ParseKeylen
    \/ ParsePacket

SpecKeylen == InitKeylen /\ [][NextKeylen]_vars

\* the keylen byte of the header of d
HeaderKeylen(d) == d[Len(MAGIC_NUMBER) + Len(LATEST_VERSION) + 1]

\* C24: parse_slice rejects every header whose keylen byte is not 2: it
\* decodes no packet after such a header and ends with an error; a header
\* whose keylen byte is 2 is accepted and the packets after it are decoded.
C24_KeylenChecked ==
    /\ HeaderKeylen(data) # 2 =>
          /\ op # "Packet::decode"
          /\ packets = <<>>
          /\ pc = "done" => res.res = "err"
    /\ (HeaderKeylen(data) = 2 /\ pc = "done") => op = "Packet::decode"

(***************************************************************************)
(* The errors of the dispatcher                                              *)
(***************************************************************************)
\* the errors Unsupported::decode can produce
UnsupportedErrors == {"EndOfStream", "ExponentIsZero", "OversizedLength"}

\* the errors only a derived packet decoder produces
TypedErrors == {"WrongKey", "InvalidEnum", "InvalidBool", "InvalidUtf8", "WrongLength"}

\* C25: every error Packet::decode returns is the error of the final
\* Unsupported::decode attempt (EndOfStream, ExponentIsZero or
\* OversizedLength), never WrongKey, InvalidEnum, InvalidBool, InvalidUtf8 or
\* WrongLength; the same holds for the packet error parse_slice returns.
C25_OnlyUnsupportedFails ==
    /\ (pc = "called" /\ op = "Packet::decode" /\ res.res = "err") =>
          /\ res.err = UnsupportedDecode(data, start).err
          /\ res.err \in UnsupportedErrors
          /\ res.err \notin TypedErrors
    /\ (pc = "done" /\ op = "Packet::decode" /\ res.res = "err") =>
          /\ res.err = "Packet"
          /\ res.inner = UnsupportedDecode(data, start).err
          /\ res.inner \in UnsupportedErrors

\* C25 witness: the variant that owns the key rejects its payload with an
\* error of its own, Unsupported::decode runs out of bytes, and
\* Packet::decode returns EndOfStream
C25_Witness ==
    /\ pc = "called"
    /\ op = "Packet::decode"
    /\ res.res = "err"
    /\ res.err = "EndOfStream"
    /\ Len(data) >= start + 2
    /\ FramedKey \in CatalogKeys
    /\ TypedDecode(KeyVariant(FramedKey), data, start).err \in TypedErrors

(***************************************************************************)
(* SpecGbi: Gbi::try_from on TasdFiles with up to MaxGbi packets             *)
(***************************************************************************)
MaxGbi == 4

\* Result<Gbi, LegacyError>
GbiResult(r, e, text, console) ==
    [res |-> r, err |-> e, pos |-> 0, input_text |-> text, console_type |-> console]

HexChars == <<"0", "1", "2", "3", "4", "5", "6", "7", "8", "9", "A", "B", "C", "D", "E", "F">>

RECURSIVE UpperHex(_)
\* {:X}: the upper-case hexadecimal digits of n, no leading zero
UpperHex(n) ==
    IF n < 16 THEN <<HexChars[n + 1]>>
    ELSE Append(UpperHex(n \div 16), HexChars[(n % 16) + 1])

\* {:0wX}: at least w digits, padded with zeros on the left
ZeroPad(digits, w) == [i \in 1..(w - Len(digits)) |-> "0"] \o digits

\* format!("{:08X} {:04X}\n", index, value)
GbiLine(index, value) ==
    ZeroPad(UpperHex(index), 8) \o <<" ">> \o ZeroPad(UpperHex(value), 4) \o <<"\n">>

MomentIndex(m) == m.vals[1]
MomentInputs(m) == m.vals[2]

\* for input in moment.inputs: one line with input ^ 0xFF
GbLines(m) ==
    Flatten([i \in 1..Len(MomentInputs(m)) |-> GbiLine(MomentIndex(m), 255 - MomentInputs(m)[i])])

\* for input in moment.inputs.chunks_exact(2): one line with
\* u16::from_be_bytes(input) ^ 0xFFFF; a last odd byte is left out
GbaLines(m) ==
    Flatten([i \in 1..(Len(MomentInputs(m)) \div 2) |->
                GbiLine(MomentIndex(m),
                        65535 - (MomentInputs(m)[2 * i - 1] * 256 + MomentInputs(m)[2 * i]))])

IsConsoleType(q) == q.tag = "ConsoleType"
IsInputMoment(q) == q.tag = "InputMoment"

\* find_map: the kind of the first ConsoleType packet
FirstConsole(consoles) ==
    IF consoles = <<>> THEN [some |-> FALSE, kind |-> 0]
    ELSE [some |-> TRUE, kind |-> consoles[1].vals[1]]

\* the moments left in file order
Unsorted(moments) == moments

\* the place of moments[i] after a stable sort by index
SortedPlace(moments, i) ==
    1 + Cardinality({j \in 1..Len(moments) :
                        \/ MomentIndex(moments[j]) < MomentIndex(moments[i])
                        \/ MomentIndex(moments[j]) = MomentIndex(moments[i]) /\ j < i})

\* moments.sort_by(|a, b| a.index.cmp(&b.index)): a stable sort
SortByIndex(moments) ==
    [k \in 1..Len(moments) |->
        moments[CHOOSE i \in 1..Len(moments) : SortedPlace(moments, i) = k]]

\* the match on the console kind
GbiMatch(console, moments) ==
    IF ~console.some THEN GbiResult("err", "UnsupportedConsole", <<>>, 0)
    ELSE IF console.kind \in {5, 6}
    THEN GbiResult("ok", "", Flatten([i \in 1..Len(moments) |-> GbLines(moments[i])]),
                   console.kind)
    ELSE IF console.kind = 7
    THEN GbiResult("ok", "", Flatten([i \in 1..Len(moments) |-> GbaLines(moments[i])]),
                   console.kind)
    ELSE GbiResult("err", "UnsupportedConsole", <<>>, 0)

\* impl TryFrom<TasdFile> for Gbi
GbiTryFrom(f) ==
    GbiMatch(FirstConsole(SelectSeq(f.packets, IsConsoleType)),
             SortByIndex(SelectSeq(f.packets, IsInputMoment)))

GbiPackets ==
    {Pkt("ConsoleType", <<1, <<>>>>),
     Pkt("ConsoleType", <<5, <<>>>>),
     Pkt("ConsoleType", <<7, <<>>>>),
     Pkt("InputMoment", <<2, <<1>>>>),
     Pkt("InputMoment", <<1, <<2, 3>>>>),
     Pkt("InputMoment", <<1, <<4, 5, 6>>>>),
     Pkt("InputMoment", <<300, <<7>>>>)}

GbiFiles ==
    {TasdFile(DefaultFile.version, DefaultFile.keylen, ps) : ps \in SeqsUpTo(GbiPackets, MaxGbi)}

InitGbi ==
    /\ file \in GbiFiles
    /\ data = <<>>
    /\ pos = 0
    /\ start = 0
    /\ overflow_checks = TRUE
    /\ pc = "file"
    /\ op = ""
    /\ res = NoResult
    /\ pkt = NoPacket
    /\ packets = <<>>
    /\ locals = NoLocals
    /\ length = UsizeZero
    /\ out = <<>>
    /\ stack = <<>>
    /\ clock = Epoch
    /\ legacy = NoLegacy

\* Gbi::try_from(tasd)
CallGbiTryFrom ==
    /\ pc = "file"
    /\ res' = GbiTryFrom(file)
    /\ op' = "Gbi::try_from"
    /\ pc' = "called"
    /\ UNCHANGED <<data, pos, start, overflow_checks, pkt, file, packets, locals, length, out,
                   stack, clock, legacy>>

NextGbi == CallGbiTryFrom

SpecGbi == InitGbi /\ [][NextGbi]_vars

\* the lines of a text: the k-th line runs from after the (k-1)-th newline to
\* the k-th newline
Newlines(text) == {i \in 1..Len(text) : text[i] = "\n"}
LineCount(text) == Cardinality(Newlines(text))
LineEnd(text, k) == CHOOSE i \in Newlines(text) : Cardinality({j \in Newlines(text) : j <= i}) = k
LineOf(text, k) == SubSeq(text, IF k = 1 THEN 1 ELSE LineEnd(text, k - 1) + 1, LineEnd(text, k))

HexDigitValue(c) == (CHOOSE i \in 1..16 : HexChars[i] = c) - 1

RECURSIVE HexValue(_)
HexValue(digits) ==
    IF digits = <<>> THEN 0 ELSE HexValue(Front(digits)) * 16 + HexDigitValue(digits[Len(digits)])

\* the index a line starts with: the hexadecimal number before the space
LineIndex(line) == HexValue(SubSeq(line, 1, (CHOOSE i \in 1..Len(line) : line[i] = " ") - 1))

\* the lines of the text that start with index x, in text order
LinesWithIndex(text, x) ==
    Flatten([k \in 1..LineCount(text) |->
                IF LineIndex(LineOf(text, k)) = x THEN LineOf(text, k) ELSE <<>>])

\* the lines of the moments of the file that have index x, in file order
FileLinesWithIndex(pkts, kind, x) ==
    Flatten([i \in 1..Len(pkts) |->
                IF IsInputMoment(pkts[i]) /\ MomentIndex(pkts[i]) = x
                THEN IF kind = 7 THEN GbaLines(pkts[i]) ELSE GbLines(pkts[i])
                ELSE <<>>])

FileIndexes(pkts) == {MomentIndex(pkts[i]) : i \in {j \in 1..Len(pkts) : IsInputMoment(pkts[j])}}

FileConsole == FirstConsole(SelectSeq(file.packets, IsConsoleType))

\* C26: when the ConsoleType of the file is GB, GBC or GBA, Gbi::try_from
\* succeeds and the lines of its text are in non-decreasing index order
\* whatever the order of the InputMoment packets, the lines of moments with
\* the same index in the order those moments have in the file; for every other
\* console, and without a ConsoleType packet, it fails with
\* UnsupportedConsole.
C26_GbiOrdering ==
    (pc = "called" /\ op = "Gbi::try_from") =>
        IF FileConsole.some /\ FileConsole.kind \in {5, 6, 7}
        THEN /\ res.res = "ok"
             /\ \A k \in 1..(LineCount(res.input_text) - 1) :
                    LineIndex(LineOf(res.input_text, k)) <= LineIndex(LineOf(res.input_text, k + 1))
             /\ \A x \in FileIndexes(file.packets) :
                    LinesWithIndex(res.input_text, x)
                        = FileLinesWithIndex(file.packets, FileConsole.kind, x)
             /\ \A k \in 1..LineCount(res.input_text) :
                    LineIndex(LineOf(res.input_text, k)) \in FileIndexes(file.packets)
        ELSE res.res = "err" /\ res.err = "UnsupportedConsole"

\* C26 witness: a GB file whose moments come with indexes 2, 1, 1: the text has
\* the lines of the two moments of index 1 in file order, then that of index 2
C26_Witness ==
    /\ pc = "called"
    /\ op = "Gbi::try_from"
    /\ file.packets = <<Pkt("ConsoleType", <<5, <<>>>>),
                        Pkt("InputMoment", <<2, <<1>>>>),
                        Pkt("InputMoment", <<1, <<4, 5, 6>>>>),
                        Pkt("InputMoment", <<1, <<2, 3>>>>)>>
    /\ res.res = "ok"
    /\ res.input_text =
          GbiLine(1, 251) \o GbiLine(1, 250) \o GbiLine(1, 249)
              \o GbiLine(1, 253) \o GbiLine(1, 252) \o GbiLine(2, 254)
    /\ GbiLine(1, 251) = <<"0", "0", "0", "0", "0", "0", "0", "1", " ", "0", "0", "F", "B", "\n">>

(***************************************************************************)
(* Progress of the loop of parse_slice                                       *)
(***************************************************************************)
\* the calls of Packet::decode made so far: one per pushed packet, and the one
\* that ended the loop
Iterations ==
    Len(packets) + (IF op = "Packet::decode" /\ pc \in {"done", "reencoded"} THEN 1 ELSE 0)

\* C27: in the loop of parse_slice every successful Packet::decode leaves the
\* cursor at least 4 bytes further than before the call and not beyond
\* data.len(), every call that does not succeed ends the loop, and the loop
\* runs at most data.len() / 4 + 1 iterations.
C27_ParseTerminates ==
    /\ (op = "Packet::decode" /\ pc = "loop") =>
          /\ PacketDecode(data, start).res = "ok"
          /\ pos >= start + 4
          /\ pos <= Len(data)
    /\ (op = "Packet::decode" /\ PacketDecode(data, start).res # "ok") => pc = "done"
    /\ Iterations <= (Len(data) \div 4) + 1

\* C27 witness: the second packet of the input was decoded, took the smallest
\* possible frame, 4 bytes, and ended at the end of the input
C27_Witness ==
    /\ op = "Packet::decode"
    /\ pc = "loop"
    /\ Len(packets) = 2
    /\ pos = start + 4
    /\ pos = Len(data)

====
